---- MODULE Spec2Model ----
(***************************************************************************)
(* A model of the dense matrix engine of the face recognition system       *)
(* (src/src/database.h, the matrix library) and of the operations built    *)
(* on it.  A matrix is a heap object: an address, its row and column       *)
(* counts and its element buffer.  Element values are integers (the        *)
(* integer-valued doubles), so that every arithmetic step is exact.        *)
(***************************************************************************)
EXTENDS Integers, Sequences, FiniteSets, TLC

VARIABLES
    pc,      \* "idle" | "done" | "freed" | "aborted" (failed assert) | "exited" (exit(1))
             \* | "script" (cross-validate.sh is running)
    op,      \* the library function the process called last
    A,       \* first operand, as it is in memory now
    B,       \* second operand, as it is in memory now
    A0,      \* first operand as it was when the call was made
    B0,      \* second operand as it was when the call was made
    R,       \* the matrix the call returned (NoMatrix when it returned none)
    val,     \* the scalar the call returned
    stream,  \* the contents of the FILE the process writes and reads
    pos,     \* the read position in stream (number of items consumed)
    wrote,   \* the matrices written to stream, in order
    got,     \* the matrices read back from stream, in order
    freed,   \* addresses passed to m_free
    entries, \* the database entries (class, name), one per column of X
    num_classes, \* the number of classes c passed to m_scatter and LDA
    S_b,     \* the between-scatter matrix m_scatter accumulated into
    S_w,     \* the within-scatter matrix m_scatter accumulated into
    u,       \* the grand mean m_scatter computed
    blocks,  \* the column ranges <<j, k>> m_scatter copied, one per class
    reads,   \* the indices at which m_scatter read entries[]
    W_fld,   \* the eigenvector matrix J_evec that LDA obtained from m_eigen
    live,    \* allocations made during the call and not released on return
    Eigenfaces,         \* Recognition: the basis, one eigenface per column
    ProjectedImages,    \* Recognition: the projected training images, one per column
    ProjectedTestImage, \* Recognition: the projected test image
    Euc_dist,           \* Recognition: the squared distances to the training images
    db,      \* the database db_save was called on
    loaded,  \* the database db_load filled
    tset,    \* the text artifact (path_tset): one line per entry
    stray,   \* the accesses made outside the buffer of a matrix: <<matrix, index>>
    sh,      \* cross-validate.sh: its shell variables and the line it is at
    ran      \* cross-validate.sh: the commands it ran to completion, in order

scatterVars == <<entries, num_classes, S_b, S_w, u, blocks, reads, W_fld>>

recogVars == <<Eigenfaces, ProjectedImages, ProjectedTestImage, Euc_dist>>

dbVars == <<db, loaded, tset>>

shVars == <<sh, ran>>

vars == <<pc, op, A, B, A0, B0, R, val, stream, pos, wrote, got, freed,
          scatterVars, live, recogVars, dbVars, stray, shVars>>

---------------------------------------------------------------------------
(* Bounds of the model. *)

\* Largest row or column count of the matrices the operations are applied to.
MaxDim == 2

\* Value found in memory that malloc returns without clearing it.
Junk == 7

\* Number of matrices written back to back to one stream.
MaxWrites == 2

\* Largest order of the patterned square matrices (above MaxDim) that
\* m_determinant and m_cofactor are applied to.
MaxOrder == 4

\* Largest number of images (columns of the image matrix) of a training set,
\* apart from the training set of two classes of four images.
MaxImages == 4

\* Largest image index given to cross-validate.sh as the begin or the end of
\* its range.
MaxIndex == 3

\* matrixTest.c: the order of the largest identity matrix it takes the
\* determinant and the cofactor matrix of.
XDIM == 6

---------------------------------------------------------------------------
(* Matrices. *)

\* Absence of a matrix (a NULL pointer).
NoMatrix == [addr |-> 0, rows |-> 0, cols |-> 0, data |-> <<>>]

\* Addresses of the operands the caller owns, and the first address malloc
\* hands out during a call.
AddrA == 1
AddrB == 2
AddrFresh == 3

\* elem(M, i, j): the matrix is column-major, element (i, j) is data[j * rows + i]
\* (C indices from 0; the buffer is the sequence data[1..rows*cols]).
Idx(M, i, j) == j * M.rows + i + 1
elem(M, i, j) == M.data[Idx(M, i, j)]
SetElem(M, i, j, v) == [M EXCEPT !.data[Idx(M, i, j)] = v]

\* A C loop nest "for i in 0..r-1: for j in 0..c-1" as the sequence of its
\* index pairs, and the loop itself as a fold of its body over them.
RowLoop(r, c) == [k \in 1..(r * c) |-> <<(k - 1) \div c, (k - 1) % c>>]
ColLoop(r, c) == [k \in 1..(r * c) |-> <<(k - 1) % r, (k - 1) \div r>>]

\* Each iteration is evaluated, once, before the next one starts: "next" and
\* "rest" range over one value each.
RECURSIVE FoldSeq(_, _, _)
FoldSeq(Body(_, _), acc, s) ==
    IF s = <<>> THEN acc
    ELSE CHOOSE r \in { FoldSeq(Body, next, rest) :
                            next \in {Body(acc, Head(s))}, rest \in {Tail(s)} } : TRUE

\* F of the value of e, e being evaluated once however often F uses it.
Bind(e, F(_)) == CHOOSE r \in { F(x) : x \in {e} } : TRUE

\* What memory that malloc returns may hold, the allocator not clearing it:
\* zeros (a fresh page), or stale values that differ from cell to cell.
Garbage == {"zeroed", "stale"}

Indeterminate(g, k) == IF g = "zeroed" THEN 0 ELSE Junk + k

\* m_initialize: malloc of the header and of rows*cols elements, not cleared.
m_initialize(rows, cols, a, g) ==
    [addr |-> a, rows |-> rows, cols |-> cols,
     data |-> [k \in 1..(rows * cols) |-> Indeterminate(g, k)]]

\* m_zeros: calloc of rows*cols elements.
m_zeros(rows, cols, a) ==
    [addr |-> a, rows |-> rows, cols |-> cols,
     data |-> [k \in 1..(rows * cols) |-> 0]]

\* m_identity: calloc of rows*rows elements, then elem(M, i, i) = 1.
m_identity(rows, a) ==
    FoldSeq(LAMBDA M, i: SetElem(M, i, i, 1),
            m_zeros(rows, rows, a),
            [k \in 1..rows |-> k - 1])

\* m_copy: m_initialize, then memcpy of rows*cols elements.
m_copy(M, a, g) ==
    LET C == m_initialize(M.rows, M.cols, a, g)
    IN  [C EXCEPT !.data = [k \in 1..(C.rows * C.cols) |-> M.data[k]]]

\* m_transpose with its inner loop started at j = 1: column 0 of T is never
\* written.
m_transpose_from1(M, a, g) ==
    LET T == m_initialize(M.cols, M.rows, a, g)
    IN  FoldSeq(LAMBDA T1, ij: SetElem(T1, ij[1], ij[2], elem(M, ij[2], ij[1])),
                T, SelectSeq(RowLoop(T.rows, T.cols), LAMBDA ij: ij[2] >= 1))

\* m_transpose: T = m_initialize(cols, rows); elem(T, i, j) = elem(M, j, i).
m_transpose(M, a, g) ==
    LET T == m_initialize(M.cols, M.rows, a, g)
    IN  FoldSeq(LAMBDA T1, ij: SetElem(T1, ij[1], ij[2], elem(M, ij[2], ij[1])),
                T, RowLoop(T.rows, T.cols))

\* m_sqrtm: the body is commented out; the function returns its argument.
m_sqrtm(M) == M

\* The int the loop "for (i = 1; i < M->rows; i++)" of m_determinant leaves in
\* i: the loop runs for every column k # j, and ends with i = M->rows.
ExitI(M) == M.rows

\* (x % 2) ^ (y % 2) on ints that are not negative.
Xor(x, y) == ((x % 2) + (y % 2)) % 2

\* The inner loops of m_determinant: A receives rows 1.. of M without column j.
FillMinor0(A1, M, j) ==
    LET ks == SelectSeq([k \in 1..M.cols |-> k - 1], LAMBDA k: k # j)
    IN  FoldSeq(LAMBDA A2, ic:
                    SetElem(A2, ic[1], ic[2], elem(M, ic[1] + 1, ks[ic[2] + 1])),
                A1, ColLoop(M.rows - 1, M.cols - 1))

\* m_determinant: det is the double the function returns.
RECURSIVE m_determinant(_, _)
m_determinant(M, g) ==
    IF M.rows < 1 THEN 0
    ELSE IF M.rows = 1 THEN elem(M, 0, 0)
    ELSE IF M.rows = 2
         THEN elem(M, 0, 0) * elem(M, 1, 1) - elem(M, 1, 0) * elem(M, 0, 1)
    ELSE LET A1 == m_initialize(M.rows - 1, M.cols - 1, AddrFresh, g)
             i == ExitI(M)
         IN  FoldSeq(LAMBDA det, j:
                        LET sign == 1 - 2 * Xor(i, j)
                        IN  det + sign * elem(M, 0, j)
                                  * m_determinant(FillMinor0(A1, M, j), g),
                     0, [k \in 1..M.cols |-> k - 1])

\* The inner loops of m_cofactor: A receives M without row i and column j.
FillMinor(A1, M, i, j) ==
    LET rs == SelectSeq([k \in 1..M.rows |-> k - 1], LAMBDA r: r # i)
        cs == SelectSeq([k \in 1..M.cols |-> k - 1], LAMBDA c: c # j)
    IN  FoldSeq(LAMBDA A2, rc:
                    SetElem(A2, rc[1], rc[2], elem(M, rs[rc[1] + 1], cs[rc[2] + 1])),
                A1, RowLoop(M.rows - 1, M.cols - 1))

\* m_cofactor: A and R are allocated in this order; A is freed on return.
m_cofactor(M, a, g) ==
    LET A1 == m_initialize(M.rows - 1, M.cols - 1, a, g)
        R1 == m_initialize(M.rows, M.cols, a + 1, g)
    IN  FoldSeq(LAMBDA R2, ij:
                    LET i == ij[1]
                        j == ij[2]
                        sign == 1 - 2 * Xor(i, j)
                    IN  SetElem(R2, j, i,
                                m_determinant(FillMinor(A1, M, i, j), g) * sign),
                R1, RowLoop(M.rows, M.cols))

\* The assert of the elementwise binary operations.
SameDims(M, N) == M.rows = N.rows /\ M.cols = N.cols

Abs(x) == IF x < 0 THEN -x ELSE x

\* The quotient of two doubles whose quotient is an integer.
PrecDiv(x, y) == IF y < 0 THEN (-x) \div (-y) ELSE x \div y

\* m_dot_subtract, m_dot_add, m_dot_division after their assert:
\* R = m_initialize(A->rows, A->cols); elem(R, i, j) = elem(A, i, j) op elem(B, i, j).
m_dot_subtract(M, N, a, g) ==
    FoldSeq(LAMBDA R1, ij:
                SetElem(R1, ij[1], ij[2], elem(M, ij[1], ij[2]) - elem(N, ij[1], ij[2])),
            m_initialize(M.rows, M.cols, a, g), RowLoop(M.rows, M.cols))

\* m_dot_add as a copy of m_dot_subtract in which the operator was not changed.
m_dot_add_pasted(M, N, a, g) == m_dot_subtract(M, N, a, g)

m_dot_add(M, N, a, g) ==
    FoldSeq(LAMBDA R1, ij:
                SetElem(R1, ij[1], ij[2], elem(M, ij[1], ij[2]) + elem(N, ij[1], ij[2])),
            m_initialize(M.rows, M.cols, a, g), RowLoop(M.rows, M.cols))

m_dot_division(M, N, a, g) ==
    FoldSeq(LAMBDA R1, ij:
                SetElem(R1, ij[1], ij[2],
                        PrecDiv(elem(M, ij[1], ij[2]), elem(N, ij[1], ij[2]))),
            m_initialize(M.rows, M.cols, a, g), RowLoop(M.rows, M.cols))

\* cblas_dgemm(CblasColMajor, NoTrans, NoTrans, m, n, k, 1, A, lda, B, ldb, 0, C, ldc):
\* C[j * ldc + i] = sum over l of A[l * lda + i] * B[j * ldb + l].
cblas_dgemm(m, n, k, Ad, lda, Bd, ldb, Cd, ldc) ==
    [x \in 1..Len(Cd) |->
        LET i == (x - 1) % ldc
            j == (x - 1) \div ldc
        IN  IF i < m /\ j < n
            THEN FoldSeq(LAMBDA acc, l: acc + Ad[l * lda + i + 1] * Bd[j * ldb + l + 1],
                         0, [l \in 1..k |-> l - 1])
            ELSE Cd[x]]

\* m_matrix_multiply after its assert (A->cols == B->rows).
m_matrix_multiply(M, N, a) ==
    LET C == m_zeros(M.rows, N.cols, a)
    IN  [C EXCEPT !.data = cblas_dgemm(M.rows, N.cols, M.cols, M.data, M.rows,
                                       N.data, N.rows, C.data, C.rows)]

\* M without row i and column j.
Minor(M, i, j) ==
    [addr |-> 0, rows |-> M.rows - 1, cols |-> M.cols - 1,
     data |-> [x \in 1..((M.rows - 1) * (M.cols - 1)) |->
                 LET r == (x - 1) % (M.rows - 1)
                     c == (x - 1) \div (M.rows - 1)
                 IN  elem(M, IF r < i THEN r ELSE r + 1, IF c < j THEN c ELSE c + 1)]]

\* The determinant of a square matrix (Laplace expansion along row 0).
RECURSIVE Determinant(_)
Determinant(M) ==
    IF M.rows = 0 THEN 1
    ELSE FoldSeq(LAMBDA acc, j:
                    acc + (IF j % 2 = 0 THEN 1 ELSE -1) * elem(M, 0, j)
                          * Determinant(Minor(M, 0, j)),
                 0, [k \in 1..M.cols |-> k - 1])

\* LAPACKE_dgetrf: info is 0 unless the factorization meets a pivot that is
\* exactly zero, which for these matrices is when the matrix is singular.
LAPACKE_dgetrf(M) == IF Determinant(M) = 0 THEN 1 ELSE 0

\* LAPACKE_dgetri on the factors of a matrix: the inverse, in place (the
\* operands are the matrices whose inverse has integer elements).
LAPACKE_dgetri(M) ==
    [M EXCEPT !.data =
        [x \in 1..(M.rows * M.cols) |->
            LET i == (x - 1) % M.rows
                j == (x - 1) \div M.rows
            IN  PrecDiv((IF (i + j) % 2 = 0 THEN 1 ELSE -1) * Determinant(Minor(M, j, i)),
                        Determinant(M))]]

\* m_inverseMatrix: "exited" when either LAPACK call reports info != 0, else
\* the matrix as the call leaves it.
m_inverseMatrix(M) ==
    IF LAPACKE_dgetrf(M) # 0
    THEN [status |-> "exited", M |-> M, live |-> {<<"ipiv", 0>>}]
    ELSE [status |-> "done", M |-> LAPACKE_dgetri(M), live |-> {<<"ipiv", 0>>}]

\* m_matrix_division: C = m_copy(B); m_inverseMatrix(C); R = A * C; m_free(C).
m_matrix_division(M, N, a, g) ==
    LET C == m_copy(N, a, g)
        inv == m_inverseMatrix(C)
    IN  IF inv.status = "exited"
        THEN [status |-> "exited", R |-> NoMatrix, live |-> inv.live]
        ELSE IF M.cols # inv.M.rows
        THEN [status |-> "aborted", R |-> NoMatrix, live |-> inv.live]
        ELSE [status |-> "done", R |-> m_matrix_multiply(M, inv.M, a + 1), live |-> inv.live]

---------------------------------------------------------------------------
(* Streams.  A binary stream is a sequence of objects written by fwrite,   *)
(* each an int or a double; a text stream is the sequence of the numbers   *)
(* printed to it, each as the characters printf produced.                  *)

IntItem(n) == [t |-> "int", v |-> n]
DblItem(x) == [t |-> "double", v |-> x]

\* m_fwrite with the two header fields written in the other order.
m_fwrite_swapped(M) ==
    <<IntItem(M.cols), IntItem(M.rows)>>
        \o [k \in 1..(M.rows * M.cols) |-> DblItem(M.data[k])]

\* m_fwrite: fwrite of rows, of cols, then of the rows*cols elements of data.
m_fwrite(M) ==
    <<IntItem(M.rows), IntItem(M.cols)>>
        \o [k \in 1..(M.rows * M.cols) |-> DblItem(M.data[k])]

\* m_fread reading the column count before the row count.
m_fread_swapped(f, p, a, g) ==
    LET ncols == f[p + 1].v
        nrows == f[p + 2].v
        M0 == m_initialize(nrows, ncols, a, g)
    IN  [M |-> [M0 EXCEPT !.data = [k \in 1..(M0.rows * M0.cols) |-> f[p + 2 + k].v]],
         pos |-> p + 2 + M0.rows * M0.cols]

\* m_fread at position p of stream f: fread of rows, of cols, m_initialize,
\* then fread of rows*cols elements into data.
m_fread(f, p, a, g) ==
    LET nrows == f[p + 1].v
        ncols == f[p + 2].v
        M0 == m_initialize(nrows, ncols, a, g)
    IN  [M |-> [M0 EXCEPT !.data = [k \in 1..(M0.rows * M0.cols) |-> f[p + 2 + k].v]],
         pos |-> p + 2 + M0.rows * M0.cols]

RECURSIVE Pow10(_)
Pow10(n) == IF n = 0 THEN 1 ELSE 10 * Pow10(n - 1)

\* The number of decimal digits of a natural number (1 for 0).
RECURSIVE NumDigits(_)
NumDigits(n) == IF n < 10 THEN 1 ELSE 1 + NumDigits(n \div 10)

\* The characters "%d" prints.
PrintD(n) == [kind |-> "fixed", neg |-> n < 0, digits |-> Abs(n), exp |-> 0]

\* The characters "%lg" prints for an integer-valued double: precision 6, so
\* a value of up to six digits is printed in full, and a larger one as a
\* six-digit mantissa, rounded to nearest (ties to even), with its exponent.
PrintLg(x) ==
    LET a == Abs(x)
        e == NumDigits(a) - 1
    IN  IF e < 6
        THEN [kind |-> "fixed", neg |-> x < 0, digits |-> a, exp |-> 0]
        ELSE LET unit == Pow10(e - 5)
                 q == a \div unit
                 r == a % unit
                 m == IF 2 * r > unit \/ (2 * r = unit /\ q % 2 = 1) THEN q + 1 ELSE q
             IN  IF m = 1000000
                 THEN [kind |-> "sci", neg |-> x < 0, digits |-> 100000, exp |-> e + 1]
                 ELSE [kind |-> "sci", neg |-> x < 0, digits |-> m, exp |-> e]

\* The number scanf ("%d", "%lf") reads from the characters of one number.
Scan(tok) ==
    LET mag == IF tok.kind = "fixed" THEN tok.digits
               ELSE tok.digits * Pow10(tok.exp - 5)
    IN  IF tok.neg THEN -mag ELSE mag

\* m_fprint: "%d %d\n", then the elements row by row, each with "%lg ".
m_fprint(M) ==
    <<PrintD(M.rows), PrintD(M.cols)>>
        \o [k \in 1..(M.rows * M.cols) |->
                PrintLg(elem(M, RowLoop(M.rows, M.cols)[k][1], RowLoop(M.rows, M.cols)[k][2]))]

\* m_fscan: "%d %d", m_initialize, then "%lf" into elem(M, i, j) row by row.
m_fscan(f, a, g) ==
    LET nrows == Scan(f[1])
        ncols == Scan(f[2])
        loop == RowLoop(nrows, ncols)
    IN  FoldSeq(LAMBDA M1, k: SetElem(M1, loop[k][1], loop[k][2], Scan(f[2 + k])),
                m_initialize(nrows, ncols, a, g),
                [k \in 1..(nrows * ncols) |-> k])

---------------------------------------------------------------------------
(* The LDA module (src/src/lda.c). *)

\* m_mean_column dividing the sums by the number of rows.
m_mean_column_rows(M, a) ==
    LET sum == FoldSeq(LAMBDA a1, ij:
                           SetElem(a1, ij[2], 0, elem(a1, ij[2], 0) + elem(M, ij[2], ij[1])),
                       m_zeros(M.rows, 1, a), RowLoop(M.cols, M.rows))
    IN  [sum EXCEPT !.data = [k \in 1..M.rows |-> PrecDiv(sum.data[k], M.rows)]]

\* m_mean_column: a = m_zeros(rows, 1); a(j) += elem(M, j, i) over the columns
\* i; a(i) /= M->cols.
m_mean_column(M, a) ==
    LET sum == FoldSeq(LAMBDA a1, ij:
                           SetElem(a1, ij[2], 0, elem(a1, ij[2], 0) + elem(M, ij[2], ij[1])),
                       m_zeros(M.rows, 1, a), RowLoop(M.cols, M.rows))
    IN  [sum EXCEPT !.data = [k \in 1..M.rows |-> PrecDiv(sum.data[k], M.cols)]]

\* m_copy_columns(M, i, j): a new matrix of the columns i .. j-1 of M.
m_copy_columns(M, i, j, a) ==
    [addr |-> a, rows |-> M.rows, cols |-> j - i,
     data |-> [k \in 1..(M.rows * (j - i)) |-> M.data[i * M.rows + k]]]

\* m_subtract(A, B): A -= B, in place.
m_subtract(M, N) ==
    [M EXCEPT !.data = [k \in 1..(M.rows * M.cols) |-> M.data[k] - N.data[k]]]

\* m_add(A, B): A += B, in place.
m_add(M, N) ==
    [M EXCEPT !.data = [k \in 1..(M.rows * M.cols) |-> M.data[k] + N.data[k]]]

\* m_elem_mult(M, x): every element times x, in place.
m_elem_mult(M, x) ==
    [M EXCEPT !.data = [k \in 1..(M.rows * M.cols) |-> M.data[k] * x]]

\* m_subtract_columns(M, a): the column vector a subtracted from every column
\* of M, in place.
m_subtract_columns(M, col) ==
    [M EXCEPT !.data = [k \in 1..(M.rows * M.cols) |->
                            M.data[k] - col.data[((k - 1) % M.rows) + 1]]]

\* m_product(A, B): the matrix product, newly allocated.
m_product(M, N, a) == m_matrix_multiply(M, N, a)

\* entries[k].class; what is read beyond the end of the array is whatever
\* lies there.
EntryClass(ents, k) == IF k + 1 \in DOMAIN ents THEN ents[k + 1].class ELSE 0

\* The inner loop of the partition with its bound off by one: k <= X->cols.
RECURSIVE ScanClass_inclusive(_, _, _, _, _)
ScanClass_inclusive(ents, cols, j, k, rd) ==
    IF ~(k <= cols) THEN [k |-> k, reads |-> rd]
    ELSE IF EntryClass(ents, k) # EntryClass(ents, j)
         THEN [k |-> k, reads |-> rd \cup {k, j}]
         ELSE ScanClass_inclusive(ents, cols, j, k + 1, rd \cup {k, j})

\* for ( k = j; k < X->cols; k++ ) if ( entries[k].class != entries[j].class ) break;
\* the k the loop ends with, and the indices of entries[] it read.
RECURSIVE ScanClass(_, _, _, _, _)
ScanClass(ents, cols, j, k, rd) ==
    IF ~(k < cols) THEN [k |-> k, reads |-> rd]
    ELSE IF EntryClass(ents, k) # EntryClass(ents, j)
         THEN [k |-> k, reads |-> rd \cup {k, j}]
         ELSE ScanClass(ents, cols, j, k + 1, rd \cup {k, j})

\* The first loop of m_scatter: for each class i the columns j .. k-1 of X are
\* copied to X_classes[i], and their mean column is U[i].
Partition(X, nc, ents) ==
    FoldSeq(LAMBDA acc, i:
                LET scan == ScanClass(ents, X.cols, acc.j, acc.j, acc.reads)
                    X_class == m_copy_columns(X, acc.j, scan.k, AddrFresh + 2 * i)
                IN  [j |-> scan.k,
                     blocks |-> Append(acc.blocks, <<acc.j, scan.k>>),
                     reads |-> scan.reads,
                     X_classes |-> Append(acc.X_classes, X_class),
                     U |-> Append(acc.U, m_mean_column(X_class, AddrFresh + 2 * i + 1))],
            [j |-> 0, blocks |-> <<>>, reads |-> {}, X_classes |-> <<>>, U |-> <<>>],
            [i \in 1..nc |-> i])

\* The grand mean of m_scatter: u = m_initialize(X->rows, 1); u += U[i] for
\* every class; u /= c.
GrandMean(X, nc, U, g) ==
    LET sum == FoldSeq(LAMBDA u1, ij:
                           SetElem(u1, ij[2], 0, elem(u1, ij[2], 0) + elem(U[ij[1] + 1], ij[2], 0)),
                       m_initialize(X.rows, 1, AddrFresh, g), RowLoop(nc, X.rows))
    IN  [sum EXCEPT !.data = [k \in 1..X.rows |-> PrecDiv(sum.data[k], nc)]]

\* The names of the allocations of m_scatter, and of those it releases.
ScatterAllocated(nc) ==
    {<<"X_classes", 0>>, <<"U", 0>>, <<"u", 0>>}
    \cup { <<n, i>> : n \in {"X_classes", "U", "u_i", "u_i_tr", "S_b_i", "X_class_tr", "S_w_i"},
                      i \in 1..nc }

ScatterReleased(nc) ==
    {<<"X_classes", 0>>, <<"U", 0>>}
    \cup { <<n, i>> : n \in {"u_i", "u_i_tr", "S_b_i", "X_class_tr", "S_w_i", "X_classes", "U"},
                      i \in 1..nc }

\* m_scatter(X, c, entries, S_b, S_w): the scatter matrices are accumulated
\* into S_b and S_w, in place.
m_scatter(X, nc, ents, Sb, Sw, g) ==
    Bind(Partition(X, nc, ents), LAMBDA part:
    Bind(GrandMean(X, nc, part.U, g), LAMBDA mean:
    Bind(FoldSeq(LAMBDA s, i:
             Bind(m_subtract(m_copy(part.U[i], AddrFresh + 1, g), mean), LAMBDA u_i:
             Bind(m_subtract_columns(part.X_classes[i], part.U[i]), LAMBDA X_sub:
                 LET u_i_tr == m_transpose(u_i, AddrFresh + 2, g)
                     S_b_i == m_elem_mult(m_product(u_i, u_i_tr, AddrFresh + 3),
                                          part.X_classes[i].cols)
                     X_class_tr == m_transpose(X_sub, AddrFresh + 4, g)
                     S_w_i == m_product(X_sub, X_class_tr, AddrFresh + 5)
                 IN  [S_b |-> m_add(s.S_b, S_b_i), S_w |-> m_add(s.S_w, S_w_i)])),
             [S_b |-> Sb, S_w |-> Sw], [i \in 1..nc |-> i]), LAMBDA acc:
        [S_b |-> acc.S_b, S_w |-> acc.S_w, u |-> mean,
         blocks |-> part.blocks, reads |-> part.reads,
         live |-> ScatterAllocated(nc) \ ScatterReleased(nc)])))

\* m_inverse(M): a new matrix, the inverse of M by LU factorization; the
\* process is terminated when the factorization reports a singular matrix.
m_inverse(M, a, g) == m_inverseMatrix(m_copy(M, a, g))

\* m_eigen(M, M_eval, M_evec) stored V in M_evec: every column of V is an
\* eigenvector of M, for an eigenvalue among -2 .. 2.
m_eigen(M, V) ==
    /\ V.rows = M.rows /\ V.cols = M.cols
    /\ \A j \in 0..(V.cols - 1) : \E ev \in -2..2 :
          \A i \in 0..(M.rows - 1) :
              FoldSeq(LAMBDA t, k: t + elem(M, i, k - 1) * elem(V, k - 1, j), 0,
                      [k \in 1..M.cols |-> k]) = ev * elem(V, i, j)

\* LDA(W_pca_tr, P_pca, c, entries), with V the eigenvectors m_eigen stores
\* in J_evec.  The process is terminated in m_inverse when S_w is singular
\* and stopped by the assert of the matrix product when the dimensions of
\* W_fld_tr and W_pca_tr do not agree.
LDA(W_pca_tr, P_pca, nc, ents, V, g) ==
    Bind(m_scatter(P_pca, nc, ents, m_zeros(P_pca.rows, P_pca.rows, AddrFresh),
                   m_zeros(P_pca.rows, P_pca.rows, AddrFresh + 1), g), LAMBDA sc:
    Bind(m_inverse(sc.S_w, AddrFresh + 2, g), LAMBDA S_w_inv:
        LET J == m_product(S_w_inv.M, sc.S_b, AddrFresh + 3)
            W_fld_tr == m_transpose(V, AddrFresh + 6, g)
            none == [status |-> "exited", S_b |-> sc.S_b, S_w |-> sc.S_w, u |-> sc.u,
                     blocks |-> sc.blocks, reads |-> sc.reads, J |-> NoMatrix, R |-> NoMatrix,
                     live |-> sc.live \cup {<<"S_b", 0>>, <<"S_w", 0>>}]
        IN  IF S_w_inv.status = "exited" THEN none
            ELSE IF W_fld_tr.cols # W_pca_tr.rows
            THEN [none EXCEPT !.status = "aborted", !.J = J]
            ELSE [none EXCEPT !.status = "done", !.J = J,
                              !.R = m_product(W_fld_tr, W_pca_tr, AddrFresh + 7),
                              !.live = sc.live \cup {<<"W_lda_tr", 0>>}]))

---------------------------------------------------------------------------
(* Recognition (src/MATLAB/PCA/Recognition.m). *)

\* Column i (from 1) of M, as a column vector.
Column(M, i) ==
    [addr |-> AddrFresh, rows |-> M.rows, cols |-> 1,
     data |-> [k \in 1..M.rows |-> M.data[(i - 1) * M.rows + k]]]

\* Eigenfaces' * x for a column vector x.
Project(E, x) ==
    [addr |-> AddrFresh, rows |-> E.cols, cols |-> 1,
     data |-> [k \in 1..E.cols |->
                  FoldSeq(LAMBDA t, i: t + E.data[(k - 1) * E.rows + i] * x.data[i], 0,
                          [i \in 1..E.rows |-> i])]]

\* ProjectedImages = [ProjectedImages temp]: the column temp appended.
AppendColumn(M, x) ==
    [addr |-> AddrFresh, rows |-> x.rows, cols |-> M.cols + 1, data |-> M.data \o x.data]

\* ( norm (x - q) )^2.
NormSquared(x, q) ==
    FoldSeq(LAMBDA t, i: t + (x.data[i] - q.data[i]) * (x.data[i] - q.data[i]), 0,
            [i \in 1..x.rows |-> i])

\* min that keeps the last of the smallest elements: the index moves on an
\* element that is equal to the smallest so far.
min_last(d) ==
    FoldSeq(LAMBDA best, i: IF d[i] <= d[best] THEN i ELSE best, 1, [i \in 1..Len(d) |-> i])

\* [Euc_dist_min, OutputName] = min(Euc_dist): the index of the smallest
\* element, the first one when it occurs several times.
min(d) ==
    FoldSeq(LAMBDA best, i: IF d[i] < d[best] THEN i ELSE best, 1, [i \in 1..Len(d) |-> i])

\* Recognition projecting the test image without subtracting the mean m.
Recognition_uncentered(InImage, mean, Acen, E) ==
    LET projected == FoldSeq(LAMBDA P, i: AppendColumn(P, Project(E, Column(Acen, i))),
                             [addr |-> AddrFresh, rows |-> E.cols, cols |-> 0, data |-> <<>>],
                             [i \in 1..Acen.cols |-> i])
        test == Project(E, InImage)
        dist == [i \in 1..Acen.cols |-> NormSquared(test, Column(projected, i))]
    IN  [Difference |-> m_subtract(InImage, mean), ProjectedImages |-> projected,
         ProjectedTestImage |-> test, Euc_dist |-> dist, OutputName |-> min(dist)]

\* Recognition(TestImage, m, A, Eigenfaces), InImage being the pixels read
\* from TestImage.
Recognition(InImage, mean, Acen, E) ==
    LET projected == FoldSeq(LAMBDA P, i: AppendColumn(P, Project(E, Column(Acen, i))),
                             [addr |-> AddrFresh, rows |-> E.cols, cols |-> 0, data |-> <<>>],
                             [i \in 1..Acen.cols |-> i])
        Difference == m_subtract(InImage, mean)
        test == Project(E, Difference)
        dist == [i \in 1..Acen.cols |-> NormSquared(test, Column(projected, i))]
    IN  [Difference |-> Difference, ProjectedImages |-> projected,
         ProjectedTestImage |-> test, Euc_dist |-> dist, OutputName |-> min(dist)]

---------------------------------------------------------------------------
(* The face database (database_t of src/src/database.h) and its two         *)
(* artifacts.                                                              *)

\* database_t after db_construct: no entries, no matrices.
NoDatabase ==
    [entries |-> <<>>, mean_face |-> NoMatrix, W_pca_tr |-> NoMatrix, P_pca |-> NoMatrix,
     lda |-> 0, W_lda_tr |-> NoMatrix, P_lda |-> NoMatrix,
     ica |-> 0, W_ica_tr |-> NoMatrix, P_ica |-> NoMatrix]

\* The matrices of a database that are present, in the order of the data
\* artifact, each with the name of its field.
PresentFields(d) ==
    <<"mean_face", "W_pca_tr", "P_pca">>
        \o (IF d.lda # 0 THEN <<"W_lda_tr", "P_lda">> ELSE <<>>)
        \o (IF d.ica # 0 THEN <<"W_ica_tr", "P_ica">> ELSE <<>>)

\* db_save: the entries go to the text artifact, one line (class, name) per
\* entry; the data artifact gets the presence flag and then the matrices that
\* are present, each written by m_fwrite.
db_save(d) ==
    [tset |-> [k \in 1..Len(d.entries) |->
                  [class |-> PrintD(d.entries[k].class), name |-> d.entries[k].name]],
     tdata |-> FoldSeq(LAMBDA f, fld: f \o m_fwrite(d[fld]),
                       <<IntItem(d.lda + 2 * d.ica)>>, PresentFields(d))]

\* db_load: the entries are read from the lines of the text artifact, the
\* presence flag and then the matrices it announces from the data artifact,
\* each by m_fread.
db_load(lines, f, g) ==
    LET flag == f[1].v
        head == [NoDatabase EXCEPT
                    !.entries = [k \in 1..Len(lines) |->
                                    [class |-> Scan(lines[k].class), name |-> lines[k].name]],
                    !.lda = flag % 2,
                    !.ica = flag \div 2]
        out == FoldSeq(LAMBDA acc, fld:
                           LET rd == m_fread(f, acc.pos, AddrFresh + acc.n, g)
                           IN  [d |-> [acc.d EXCEPT ![fld] = rd.M],
                                pos |-> rd.pos, n |-> acc.n + 1],
                       [d |-> head, pos |-> 1, n |-> 0], PresentFields(head))
    IN  [d |-> out.d, pos |-> out.pos]

---------------------------------------------------------------------------
(* The utilities of the matrix library (src/src/database.h): centering,    *)
(* normalization, reshaping, covariance, reordering of columns.            *)

\* Whether (i, j) is an element of M.
InRange(M, i, j) == i \in 0..(M.rows - 1) /\ j \in 0..(M.cols - 1)

\* The double that elem(M, i, j) reads: the element of the buffer when the
\* index computed lies inside it, else what lies in memory at that place.
Peek(M, i, j, beyond) ==
    IF Idx(M, i, j) \in 1..Len(M.data) THEN elem(M, i, j) ELSE beyond

\* The quotient x / y of two doubles, kept as the pair: it is not a number
\* when both are zero, and infinite when only y is.
Quot(x, y) == [num |-> x, den |-> y]

\* m_normalize_columns with += for -=.
m_normalize_columns_added(M, a) ==
    FoldSeq(LAMBDA M1, ij:
                SetElem(M1, ij[2], ij[1], elem(M1, ij[2], ij[1]) + elem(a, ij[2], 0)),
            M, RowLoop(M.cols, M.rows))

\* m_normalize_columns: elem(M, j, i) -= elem(a, j, 0) for every column i and
\* every row j, in place.
m_normalize_columns(M, a) ==
    FoldSeq(LAMBDA M1, ij:
                SetElem(M1, ij[2], ij[1], elem(M1, ij[2], ij[1]) - elem(a, ij[2], 0)),
            M, RowLoop(M.cols, M.rows))

\* The first loop nest of m_normalize: min and max start at elem(M, 0, 0).
MinMax(M) ==
    FoldSeq(LAMBDA mm, ij:
                LET v == elem(M, ij[1], ij[2])
                IN  [min |-> IF mm.min > v THEN v ELSE mm.min,
                     max |-> IF mm.max < v THEN v ELSE mm.max],
            [min |-> elem(M, 0, 0), max |-> elem(M, 0, 0)], RowLoop(M.rows, M.cols))

\* m_normalize: elem(M, i, j) = (elem(M, i, j) - min) / (max - min), in place.
m_normalize(M) ==
    Bind(MinMax(M), LAMBDA mm:
        FoldSeq(LAMBDA M1, ij:
                    SetElem(M1, ij[1], ij[2],
                            Quot(elem(M1, ij[1], ij[2]) - mm.min, mm.max - mm.min)),
                M, RowLoop(M.rows, M.cols)))

\* m_reshape filling R down its columns: r1 = i % newNumRows, c1 = i / newNumRows.
m_reshape_columns(M, newNumRows, newNumCols, a, g) ==
    FoldSeq(LAMBDA R1, i:
                SetElem(R1, i % newNumRows, i \div newNumRows,
                        elem(M, i \div M.cols, i % M.cols)),
            m_initialize(newNumRows, newNumCols, a, g),
            [k \in 1..(newNumRows * newNumCols) |-> k - 1])

\* m_reshape after its assert: R = m_initialize(newNumRows, newNumCols);
\* elem(R, i / newNumCols, i % newNumCols) = elem(M, i / M->cols, i % M->cols).
m_reshape(M, newNumRows, newNumCols, a, g) ==
    FoldSeq(LAMBDA R1, i:
                SetElem(R1, i \div newNumCols, i % newNumCols,
                        elem(M, i \div M.cols, i % M.cols)),
            m_initialize(newNumRows, newNumCols, a, g),
            [k \in 1..(newNumRows * newNumCols) |-> k - 1])

\* The index pairs m_reshape uses that are not elements of the matrix they
\* are used on.
ReshapeStray(M, newNumRows, newNumCols) ==
    LET Rm == m_zeros(newNumRows, newNumCols, 0)
        is == 0..(newNumRows * newNumCols - 1)
    IN  { <<"R", i \div newNumCols, i % newNumCols>> :
            i \in { x \in is : ~InRange(Rm, x \div newNumCols, x % newNumCols) } }
        \cup { <<"M", i \div M.cols, i % M.cols>> :
                 i \in { x \in is : ~InRange(M, x \div M.cols, x % M.cols) } }

\* m_sumCols: R = m_initialize(1, cols); elem(R, 0, j) = the sum of column j.
m_sumCols(M, a, g) ==
    FoldSeq(LAMBDA R1, j:
                SetElem(R1, 0, j,
                        FoldSeq(LAMBDA v, i: v + elem(M, i, j), 0,
                                [k \in 1..M.rows |-> k - 1])),
            m_initialize(1, M.cols, a, g), [k \in 1..M.cols |-> k - 1])

\* m_meanCols: R = m_sumCols(M); elem(R, 0, i) = elem(R, 0, i) / M->rows.
m_meanCols(M, a, g) ==
    FoldSeq(LAMBDA R1, i: SetElem(R1, 0, i, Quot(elem(R1, 0, i), M.rows)),
            m_sumCols(M, a, g), [k \in 1..M.cols |-> k - 1])

\* m_covariance.  colAvgs, norm and R are allocated in this order, norm and R
\* as rows-by-cols matrices that are not cleared.  The first loop nest assigns
\* M - colAvgs to the local val only, so norm stays as malloc returned it.
\* The second stores, for every j and k below cols, the sum over the rows i
\* of norm(i, j) * norm(i, j), divided by cols - 1, at elem(R, j, k): in the
\* buffer of R when the index lies inside it, outside it otherwise.
m_covariance(M, a, g) ==
    LET colAvgs == m_meanCols(M, a, g)
        norm == m_initialize(M.rows, M.cols, a + 1, g)
        R0 == m_initialize(M.rows, M.cols, a + 2, g)
        R1 == [R0 EXCEPT !.data = [x \in 1..(M.rows * M.cols) |-> Quot(R0.data[x], 1)]]
        \* val of the second loop nest, before the division
        sumsq(j) == FoldSeq(LAMBDA v, i: v + elem(norm, i, j) * elem(norm, i, j), 0,
                            [x \in 1..M.rows |-> x - 1])
    IN  [R |-> FoldSeq(LAMBDA R2, jk:
                           IF Idx(R2, jk[1], jk[2]) \in 1..Len(R2.data)
                           THEN SetElem(R2, jk[1], jk[2], Quot(sumsq(jk[1]), M.cols - 1))
                           ELSE R2,
                       R1, RowLoop(M.cols, M.cols)),
         stray |-> { <<"R", jk[1], jk[2]>> :
                       jk \in { x \in (0..(M.cols - 1)) \X (0..(M.cols - 1)) :
                                  ~InRange(R0, x[1], x[2]) } },
         freed |-> {colAvgs.addr, norm.addr}]

\* The int row that m_reorder_columns reads for column j: row = elem(V, 1, j).
ReorderRow(V, j, beyond) == Peek(V, 1, j, beyond)

\* m_reorder_columns after its assert: R = m_initialize(M->rows, M->cols);
\* row = elem(V, 1, j); elem(R, i, j) = elem(M, row, j) for every row i.
m_reorder_columns(M, V, a, g, beyond) ==
    [R |-> FoldSeq(LAMBDA R1, ji:
                       SetElem(R1, ji[2], ji[1],
                               Peek(M, ReorderRow(V, ji[1], beyond), ji[1], beyond)),
                   m_initialize(M.rows, M.cols, a, g), RowLoop(M.cols, M.rows)),
     stray |-> { <<"V", 1, j>> : j \in { x \in 0..(M.cols - 1) : ~InRange(V, 1, x) } }
               \cup { <<"M", ReorderRow(V, j, beyond), j>> :
                        j \in { x \in 0..(M.cols - 1) :
                                  M.rows > 0 /\ ~InRange(M, ReorderRow(V, x, beyond), x) } }]

---------------------------------------------------------------------------
(* The matrices the operations are applied to. *)

Dims == 1..MaxDim

Matrix(rows, cols, a, d) == [addr |-> a, rows |-> rows, cols |-> cols, data |-> d]

\* Every rows-by-cols matrix of zeros and ones.
Filled(rows, cols, a) ==
    { Matrix(rows, cols, a, d) : d \in [1..(rows * cols) -> {0, 1}] }

\* A matrix whose elements are all different: base + position in the buffer.
Ramp(rows, cols, a, base) ==
    Matrix(rows, cols, a, [k \in 1..(rows * cols) |-> base + k])

\* A matrix of -1 and 3, alternating along the buffer.
Alt(rows, cols, a) ==
    Matrix(rows, cols, a, [k \in 1..(rows * cols) |-> IF k % 2 = 1 THEN -1 ELSE 3])

SmallOperands(a) ==
    UNION { {Ramp(r, c, a, 1), Ramp(r, c, a, -4), Alt(r, c, a)} : r \in Dims, c \in Dims }

Operands(a) ==
    SmallOperands(a) \cup UNION { Filled(r, c, a) : r \in Dims, c \in Dims }

\* Ramp with 10 added along the diagonal, and the same with row r zeroed.
Shifted(n, a) ==
    LET M == Ramp(n, n, a, 1)
    IN  [M EXCEPT !.data = [k \in 1..(n * n) |->
            IF (k - 1) % n = (k - 1) \div n THEN M.data[k] + 10 ELSE M.data[k]]]

ZeroRow(M, r) ==
    [M EXCEPT !.data = [k \in 1..(M.rows * M.cols) |->
            IF (k - 1) % M.rows = r THEN 0 ELSE M.data[k]]]

SquareOperands(a) ==
    { M \in Operands(a) : M.rows = M.cols }
    \cup { m_identity(n, a) : n \in 1..XDIM }
    \cup UNION { {Shifted(n, a), Ramp(n, n, a, 1)}
                 \cup { ZeroRow(Shifted(n, a), r) : r \in 0..(n - 1) } : n \in 1..MaxOrder }

\* Square matrices whose inverse, when they have one, has integer elements.
InvOperands(a) ==
    { M \in Operands(a) : M.rows = M.cols /\ Determinant(M) \in {-1, 0, 1} }

\* Matrices with elements of up to seven digits, for the text format.
TextOperands(a) ==
    SmallOperands(a)
    \cup { Ramp(r, c, a, base) : r \in Dims, c \in Dims, base \in {999997, 1234564, -1234570} }

\* The matrices written to the binary stream.
WriteOperands(a) == { Ramp(r, c, a, 1) : r \in Dims, c \in Dims }

\* The operands of m_matrix_division: a patterned matrix, and a matrix to
\* invert that has as many rows as the first has columns, or is patterned too.
DivisionOperands ==
    { MN \in WriteOperands(AddrA) \X InvOperands(AddrB) :
        MN[1].cols = MN[2].rows \/ MN[2] \in SmallOperands(AddrB) }

\* The functions of the library that return a matrix computed from a matrix.
MatrixOps ==
    {"m_copy", "m_transpose", "m_transpose2", "m_sqrtm", "m_cofactor",
     "m_dot_subtract", "m_dot_add", "m_dot_division", "m_matrix_division"}

\* Every element of N divides the element of M at its place.
DivExact(M, N) ==
    \A k \in 1..Len(N.data) : N.data[k] # 0 /\ M.data[k] % Abs(N.data[k]) = 0

\* The class labels of the images.
Labels == {1, 2, 3}

\* The entries of n images with the class labels cls: the name of an image is
\* its class directory and its number.
Entries(cls) == [k \in 1..Len(cls) |-> [class |-> cls[k], name |-> <<"s", cls[k], k>>]]

EntryLists(n) == { Entries(cls) : cls \in [1..n -> Labels] }

\* The lists of entries of n images of at most two classes.
TwoClassLists(n) == { Entries(cls) : cls \in [1..n -> {1, 2}] }

\* The number of classes of a list of entries.
NumClasses(ents) == Cardinality({ ents[k].class : k \in 1..Len(ents) })

\* An image matrix whose columns are the same within a class.
ByClass(rows, ents, a) ==
    Matrix(rows, Len(ents), a,
           [k \in 1..(rows * Len(ents)) |->
                12 * ents[((k - 1) \div rows) + 1].class + ((k - 1) % rows)])

\* An image matrix whose columns are all different.
Spread(rows, cols, a) ==
    Matrix(rows, cols, a,
           [k \in 1..(rows * cols) |->
                72 * (((k - 1) \div rows) * ((k - 1) \div rows) + ((k - 1) % rows))])

\* Two classes of four images, the images of a class identical.
TwoByFour == Entries(<<1, 1, 1, 1, 2, 2, 2, 2>>)

\* The training sets m_scatter is applied to: the image matrix and its entries.
TrainingSets ==
    UNION { { <<ByClass(r, ents, AddrA), ents>>, <<Spread(r, Len(ents), AddrA), ents>> } :
            r \in Dims, ents \in UNION { EntryLists(n) : n \in 1..MaxImages } }
    \cup { <<ByClass(r, TwoByFour, AddrA), TwoByFour>> : r \in Dims }

\* Every division of m_scatter is of a double by a divisor of it: the sums of
\* the class blocks by the class sizes, the sum of the class means by c.
ScatterExact(X, nc, ents, g) ==
    \E part \in {Partition(X, nc, ents)} :
        /\ \A i \in 1..nc : \A r \in 0..(X.rows - 1) :
              LET blk == part.X_classes[i]
                  sum == FoldSeq(LAMBDA t, j: t + elem(blk, r, j - 1), 0,
                                 [j \in 1..blk.cols |-> j])
              IN  blk.cols > 0 /\ sum % blk.cols = 0
        /\ \A r \in 0..(X.rows - 1) :
              LET sum == FoldSeq(LAMBDA t, i: t + elem(part.U[i], r, 0),
                                 Indeterminate(g, r + 1), [i \in 1..nc |-> i])
              IN  sum % nc = 0

\* The centered training images of Recognition: images that are the same
\* within a class of two, and images that are all different.
RecognitionImages ==
    UNION { { ByClass(r, ents, AddrA) : ents \in TwoClassLists(n) }
            \cup { Spread(r, n, AddrA) } : r \in Dims, n \in 1..MaxImages }

\* The mean image m of a training set of images of r pixels.
MeanImage(r) == Ramp(r, 1, AddrB, 20)

\* The test images for the training images Acen: each training image, and
\* two images that are not in the training set.
TestImages(Acen) ==
    { m_add(Column(Acen, k), MeanImage(Acen.rows)) : k \in 1..Acen.cols }
    \cup { Ramp(Acen.rows, 1, AddrFresh, 30), Ramp(Acen.rows, 1, AddrFresh, 50) }

\* The trained databases of n images of m pixels: every matrix is filled
\* with values of its own.
Databases ==
    { [entries |-> ents,
       mean_face |-> Ramp(m, 1, AddrA, 1),
       W_pca_tr |-> Ramp(Len(ents), m, AddrA, 10),
       P_pca |-> Ramp(Len(ents), Len(ents), AddrA, 30),
       lda |-> l,
       W_lda_tr |-> IF l = 1 THEN Ramp(Len(ents), m, AddrA, 50) ELSE NoMatrix,
       P_lda |-> IF l = 1 THEN Ramp(Len(ents), Len(ents), AddrA, 70) ELSE NoMatrix,
       ica |-> i,
       W_ica_tr |-> IF i = 1 THEN Ramp(Len(ents), m, AddrA, 90) ELSE NoMatrix,
       P_ica |-> IF i = 1 THEN Ramp(Len(ents), Len(ents), AddrA, 110) ELSE NoMatrix] :
      ents \in UNION { TwoClassLists(n) : n \in 1..MaxImages }, m \in Dims,
      l \in {0, 1}, i \in {0, 1} }

\* The matrices m_mean_column is applied to: every sum of a row is a multiple
\* of the number of columns, so that the mean is the exact quotient.
MeanExact(M) ==
    \A i \in 0..(M.rows - 1) :
        FoldSeq(LAMBDA t, j: t + elem(M, i, j), 0, [k \in 1..M.cols |-> k - 1]) % M.cols = 0

\* The dimensions asked of m_reshape, as a matrix without elements.
Shape(rows, cols) == [addr |-> 0, rows |-> rows, cols |-> cols, data |-> <<>>]

\* The dimensions m_reshape is asked for: up to the largest element count.
ReshapeDims == 1..(MaxDim * MaxDim)

\* The vectors V of m_reorder_columns for a matrix of n columns: the 1-by-n
\* vectors that hold a permutation of 0 .. n-1, and vectors of other
\* dimensions.
OrderVectors(n) ==
    { Matrix(1, n, AddrB, [k \in 1..n |-> p[k]]) :
        p \in { q \in [1..n -> 0..(n - 1)] : \A x, y \in 1..n : q[x] = q[y] => x = y } }
    \cup { Matrix(2, n, AddrB, [k \in 1..(2 * n) |-> (k - 1) % n]),
           Matrix(1, n + 1, AddrB, [k \in 1..(n + 1) |-> k - 1]) }

---------------------------------------------------------------------------
(* cross-validate.sh (src/cross-validate.sh). *)

\* The shell before the script is started.
NotStarted == [at |-> "off", argv |-> <<>>, START |-> 0, END |-> 0, ARGS |-> <<>>, i |-> 0]

\* The algorithm flags given after the two indices.
Flags == {<<>>, <<"--lda">>, <<"--all">>, <<"--lda", "--ica">>}

\* The argument lists of the script: two indices and up to two flags, and
\* lists of fewer than two and of more than four arguments.
Argvs ==
    { <<b, e>> \o f : b \in 1..MaxIndex, e \in 1..MaxIndex, f \in Flags }
    \cup { <<>>, <<1>>, <<1, 2, "--lda", "--ica", "--all">> }

\* The test of the for loop with < for <=.
LoopTest_strict(i, END) == i < END

\* for (( i = $START; i <= $END; i++ )): the test of the loop.
LoopTest(i, END) == i <= END

\* ./create-sets.sh $i
CreateSets(i) == <<"./create-sets.sh", i>>

\* ./face-rec --train train_images --rec test_images $ARGS
FaceRec(ARGS) == <<"./face-rec", "--train", "train_images", "--rec", "test_images">> \o ARGS

---------------------------------------------------------------------------
(* The process: it calls one function of the library on operands it owns,  *)
(* may go on with the result, and ends.                                    *)

Init ==
    /\ pc = "idle"
    /\ op = "none"
    /\ A = NoMatrix /\ B = NoMatrix
    /\ A0 = NoMatrix /\ B0 = NoMatrix
    /\ R = NoMatrix
    /\ val = 0
    /\ stream = <<>>
    /\ pos = 0
    /\ wrote = <<>>
    /\ got = <<>>
    /\ freed = {}
    /\ entries = <<>> /\ num_classes = 0
    /\ S_b = NoMatrix /\ S_w = NoMatrix /\ u = NoMatrix
    /\ blocks = <<>> /\ reads = {}
    /\ W_fld = NoMatrix
    /\ live = {}
    /\ Eigenfaces = NoMatrix /\ ProjectedImages = NoMatrix
    /\ ProjectedTestImage = NoMatrix /\ Euc_dist = <<>>
    /\ db = NoDatabase /\ loaded = NoDatabase /\ tset = <<>>
    /\ stray = {}
    /\ sh = NotStarted /\ ran = <<>>

\* The call name(opA, opB) ends in status st, leaves its operands as opA1 and
\* opB1 and
\* returns the matrix ret.
Call(name, st, opA, opB, opA1, opB1, ret) ==
    /\ pc' = st /\ op' = name
    /\ A' = opA1 /\ A0' = opA /\ B' = opB1 /\ B0' = opB
    /\ R' = ret

CallInitialize ==
    /\ pc = "idle"
    /\ \E rows \in Dims, cols \in Dims, g \in Garbage :
          Call("m_initialize", "done", NoMatrix, NoMatrix, NoMatrix, NoMatrix,
               m_initialize(rows, cols, AddrFresh, g))
    /\ UNCHANGED <<val, stream, pos, wrote, got, freed, scatterVars, live, recogVars, dbVars, stray, shVars>>

CallZeros ==
    /\ pc = "idle"
    /\ \E rows \in Dims, cols \in Dims :
          Call("m_zeros", "done", NoMatrix, NoMatrix, NoMatrix, NoMatrix,
               m_zeros(rows, cols, AddrFresh))
    /\ UNCHANGED <<val, stream, pos, wrote, got, freed, scatterVars, live, recogVars, dbVars, stray, shVars>>

CallIdentity ==
    /\ pc = "idle"
    /\ \E rows \in Dims :
          Call("m_identity", "done", NoMatrix, NoMatrix, NoMatrix, NoMatrix,
               m_identity(rows, AddrFresh))
    /\ UNCHANGED <<val, stream, pos, wrote, got, freed, scatterVars, live, recogVars, dbVars, stray, shVars>>

CallCopy ==
    /\ pc = "idle"
    /\ \E M \in Operands(AddrA), g \in Garbage :
          Call("m_copy", "done", M, NoMatrix, M, NoMatrix, m_copy(M, AddrFresh, g))
    /\ UNCHANGED <<val, stream, pos, wrote, got, freed, scatterVars, live, recogVars, dbVars, stray, shVars>>

CallTranspose ==
    /\ pc = "idle"
    /\ \E M \in Operands(AddrA), g \in Garbage :
          Call("m_transpose", "done", M, NoMatrix, M, NoMatrix,
               m_transpose(M, AddrFresh, g))
    /\ UNCHANGED <<val, stream, pos, wrote, got, freed, scatterVars, live, recogVars, dbVars, stray, shVars>>

\* The caller transposes the matrix that m_transpose returned; B is that
\* matrix, the operand of the second call.
CallTransposeAgain ==
    /\ pc = "done" /\ op = "m_transpose"
    /\ \E g \in Garbage :
          Call("m_transpose2", "done", A0, R, A, R, m_transpose(R, AddrFresh + 1, g))
    /\ UNCHANGED <<val, stream, pos, wrote, got, freed, scatterVars, live, recogVars, dbVars, stray, shVars>>

CallSqrtm ==
    /\ pc = "idle"
    /\ \E M \in Operands(AddrA) :
          Call("m_sqrtm", "done", M, NoMatrix, M, NoMatrix, m_sqrtm(M))
    /\ UNCHANGED <<val, stream, pos, wrote, got, freed, scatterVars, live, recogVars, dbVars, stray, shVars>>

CallDeterminant ==
    /\ pc = "idle"
    /\ \E M \in SquareOperands(AddrA), g \in Garbage :
          /\ Call("m_determinant", "done", M, NoMatrix, M, NoMatrix, NoMatrix)
          /\ val' = m_determinant(M, g)
    /\ UNCHANGED <<stream, pos, wrote, got, freed, scatterVars, live, recogVars, dbVars, stray, shVars>>

CallCofactor ==
    /\ pc = "idle"
    /\ \E M \in SquareOperands(AddrA), g \in Garbage :
          Call("m_cofactor", "done", M, NoMatrix, M, NoMatrix,
               m_cofactor(M, AddrFresh, g))
    /\ freed' = {AddrFresh}
    /\ UNCHANGED <<val, stream, pos, wrote, got, scatterVars, live, recogVars, dbVars, stray, shVars>>

\* The operands of an elementwise binary operation: of the same dimensions,
\* or two patterned matrices of different dimensions.
DotOperands ==
    { MN \in Operands(AddrA) \X SmallOperands(AddrB) :
        SameDims(MN[1], MN[2]) \/ MN[1] \in SmallOperands(AddrA) }

CallDotSubtract ==
    /\ pc = "idle"
    /\ \E MN \in DotOperands, g \in Garbage :
          IF SameDims(MN[1], MN[2])
          THEN Call("m_dot_subtract", "done", MN[1], MN[2], MN[1], MN[2],
                    m_dot_subtract(MN[1], MN[2], AddrFresh, g))
          ELSE Call("m_dot_subtract", "aborted", MN[1], MN[2], MN[1], MN[2], NoMatrix)
    /\ UNCHANGED <<val, stream, pos, wrote, got, freed, scatterVars, live, recogVars, dbVars, stray, shVars>>

CallDotAdd ==
    /\ pc = "idle"
    /\ \E MN \in DotOperands, g \in Garbage :
          IF SameDims(MN[1], MN[2])
          THEN Call("m_dot_add", "done", MN[1], MN[2], MN[1], MN[2],
                    m_dot_add(MN[1], MN[2], AddrFresh, g))
          ELSE Call("m_dot_add", "aborted", MN[1], MN[2], MN[1], MN[2], NoMatrix)
    /\ UNCHANGED <<val, stream, pos, wrote, got, freed, scatterVars, live, recogVars, dbVars, stray, shVars>>

CallDotDivision ==
    /\ pc = "idle"
    /\ \E MN \in DotOperands, g \in Garbage :
          IF SameDims(MN[1], MN[2])
          THEN /\ DivExact(MN[1], MN[2])
               /\ Call("m_dot_division", "done", MN[1], MN[2], MN[1], MN[2],
                       m_dot_division(MN[1], MN[2], AddrFresh, g))
          ELSE Call("m_dot_division", "aborted", MN[1], MN[2], MN[1], MN[2], NoMatrix)
    /\ UNCHANGED <<val, stream, pos, wrote, got, freed, scatterVars, live, recogVars, dbVars, stray, shVars>>

CallInverseMatrix ==
    /\ pc = "idle"
    /\ \E M \in InvOperands(AddrA) :
          LET out == m_inverseMatrix(M)
          IN  /\ Call("m_inverseMatrix", out.status, M, NoMatrix, out.M, NoMatrix, NoMatrix)
              /\ live' = out.live
    /\ UNCHANGED <<val, stream, pos, wrote, got, freed, scatterVars, recogVars, dbVars, stray, shVars>>

CallMatrixDivision ==
    /\ pc = "idle"
    /\ \E MN \in DivisionOperands, g \in Garbage :
          LET out == m_matrix_division(MN[1], MN[2], AddrFresh, g)
          IN  /\ Call("m_matrix_division", out.status, MN[1], MN[2], MN[1], MN[2], out.R)
              /\ freed' = IF out.status = "done" THEN {AddrFresh} ELSE {}
              /\ live' = out.live
    /\ UNCHANGED <<val, stream, pos, wrote, got, scatterVars, recogVars, dbVars, stray, shVars>>

\* The process writes a matrix to the binary stream, after the ones it wrote.
CallFwrite ==
    /\ \/ pc = "idle"
       \/ pc = "done" /\ op = "m_fwrite" /\ Len(wrote) < MaxWrites
    /\ \E M \in WriteOperands(AddrA) :
          /\ Call("m_fwrite", "done", M, NoMatrix, M, NoMatrix, NoMatrix)
          /\ stream' = stream \o m_fwrite(M)
          /\ wrote' = Append(wrote, M)
    /\ UNCHANGED <<val, pos, got, freed, scatterVars, live, recogVars, dbVars, stray, shVars>>

\* The process reads the next matrix of the binary stream it wrote.
CallFread ==
    /\ pc = "done" /\ op \in {"m_fwrite", "m_fread"}
    /\ Len(got) < Len(wrote)
    /\ \E g \in Garbage :
          LET out == m_fread(stream, pos, AddrFresh + Len(got), g)
          IN  /\ Call("m_fread", "done", A0, NoMatrix, A, NoMatrix, out.M)
              /\ pos' = out.pos
              /\ got' = Append(got, out.M)
    /\ UNCHANGED <<val, stream, wrote, freed, scatterVars, live, recogVars, dbVars, stray, shVars>>

CallFprint ==
    /\ pc = "idle"
    /\ \E M \in TextOperands(AddrA) :
          /\ Call("m_fprint", "done", M, NoMatrix, M, NoMatrix, NoMatrix)
          /\ stream' = m_fprint(M)
          /\ wrote' = <<M>>
    /\ UNCHANGED <<val, pos, got, freed, scatterVars, live, recogVars, dbVars, stray, shVars>>

\* The process reads back the text it printed.
CallFscan ==
    /\ pc = "done" /\ op = "m_fprint"
    /\ \E g \in Garbage :
          LET out == m_fscan(stream, AddrFresh, g)
          IN  /\ Call("m_fscan", "done", A0, NoMatrix, A, NoMatrix, out)
              /\ got' = <<out>>
    /\ pos' = Len(stream)
    /\ UNCHANGED <<val, stream, wrote, freed, scatterVars, live, recogVars, dbVars, stray, shVars>>

\* m_scatter(X, c, entries, S_b, S_w) with S_b and S_w from m_zeros, as LDA
\* calls it; c is the number of classes of the entries.
CallScatter ==
    /\ pc = "idle"
    /\ \E T \in TrainingSets, g \in Garbage :
          LET X == T[1]
              nc == NumClasses(T[2])
          IN  \E out \in {m_scatter(X, nc, T[2], m_zeros(X.rows, X.rows, AddrB),
                                    m_zeros(X.rows, X.rows, AddrB + 1), g)} :
              /\ ScatterExact(X, nc, T[2], g)
              /\ Call("m_scatter", "done", X, NoMatrix, X, NoMatrix, NoMatrix)
              /\ entries' = T[2] /\ num_classes' = nc
              /\ S_b' = out.S_b /\ S_w' = out.S_w /\ u' = out.u
              /\ blocks' = out.blocks /\ reads' = out.reads
              /\ live' = out.live
              /\ W_fld' = NoMatrix
    /\ UNCHANGED <<val, stream, pos, wrote, got, freed, recogVars, dbVars, stray, shVars>>

\* LDA(W_pca_tr, P_pca, c, entries) as training calls it: P_pca is n-by-n, one
\* column per image, and W_pca_tr is n-by-m.
CallLDA ==
    /\ pc = "idle"
    /\ \E T \in TrainingSets, W \in WriteOperands(AddrB), g \in Garbage :
          /\ T[1].rows = T[1].cols /\ W.rows = T[1].rows
          /\ ScatterExact(T[1], NumClasses(T[2]), T[2], g)
          /\ \E V \in {m_identity(T[1].rows, AddrFresh + 5), Alt(T[1].rows, T[1].rows, AddrFresh + 5)} :
                \E out \in {LDA(W, T[1], NumClasses(T[2]), T[2], V, g)} :
                    /\ (out.status = "done") => m_eigen(out.J, V)
                    /\ Call("LDA", out.status, W, T[1], W, T[1], out.R)
                    /\ entries' = T[2] /\ num_classes' = NumClasses(T[2])
                    /\ S_b' = out.S_b /\ S_w' = out.S_w /\ u' = out.u
                    /\ blocks' = out.blocks /\ reads' = out.reads
                    /\ W_fld' = IF out.status = "exited" THEN NoMatrix ELSE V
                    /\ live' = out.live
    /\ UNCHANGED <<val, stream, pos, wrote, got, freed, recogVars, dbVars, stray, shVars>>

\* Recognition(TestImage, m, A, Eigenfaces): A0 is the matrix A of centered
\* training images, B0 the centered test image, val the index returned.
CallRecognition ==
    /\ pc = "idle"
    /\ \E Acen \in RecognitionImages, E \in SmallOperands(AddrB) :
          /\ E.rows = Acen.rows
          /\ \E InImage \in TestImages(Acen) :
                LET out == Recognition(InImage, MeanImage(Acen.rows), Acen, E)
                IN  /\ Call("Recognition", "done", Acen, out.Difference, Acen,
                             out.Difference, NoMatrix)
                    /\ Eigenfaces' = E
                    /\ ProjectedImages' = out.ProjectedImages
                    /\ ProjectedTestImage' = out.ProjectedTestImage
                    /\ Euc_dist' = out.Euc_dist
                    /\ val' = out.OutputName
    /\ UNCHANGED <<stream, pos, wrote, got, freed, scatterVars, live, dbVars, stray, shVars>>

\* db_save(db, path_tset, path_tdata) on a trained database.
CallDbSave ==
    /\ pc = "idle"
    /\ \E d \in Databases :
          /\ Call("db_save", "done", NoMatrix, NoMatrix, NoMatrix, NoMatrix, NoMatrix)
          /\ db' = d
          /\ tset' = db_save(d).tset
          /\ stream' = db_save(d).tdata
    /\ loaded' = NoDatabase
    /\ UNCHANGED <<val, pos, wrote, got, freed, scatterVars, live, recogVars, stray, shVars>>

\* db_load(db, path_tset, path_tdata) on the artifacts db_save wrote.
CallDbLoad ==
    /\ pc = "done" /\ op = "db_save"
    /\ \E g \in Garbage :
          LET out == db_load(tset, stream, g)
          IN  /\ Call("db_load", "done", NoMatrix, NoMatrix, NoMatrix, NoMatrix, NoMatrix)
              /\ loaded' = out.d
              /\ pos' = out.pos
    /\ UNCHANGED <<val, stream, wrote, got, freed, scatterVars, live, recogVars, db, tset,
                   stray, shVars>>

\* m_mean_column(M), as training calls it on the image matrix.
CallMeanColumn ==
    /\ pc = "idle"
    /\ \E M \in Operands(AddrA) :
          /\ MeanExact(M)
          /\ Call("m_mean_column", "done", M, NoMatrix, M, NoMatrix,
                  m_mean_column(M, AddrFresh))
    /\ UNCHANGED <<val, stream, pos, wrote, got, freed, scatterVars, live, recogVars, dbVars,
                   stray, shVars>>

\* m_normalize_columns(M, a) with the mean column a that m_mean_column
\* returned for M; B is a, the second operand.
CallNormalizeColumns ==
    /\ pc = "done" /\ op = "m_mean_column"
    /\ Call("m_normalize_columns", "done", A0, R, m_normalize_columns(A, R), R, NoMatrix)
    /\ UNCHANGED <<val, stream, pos, wrote, got, freed, scatterVars, live, recogVars, dbVars,
                   stray, shVars>>

CallNormalize ==
    /\ pc = "idle"
    /\ \E M \in Operands(AddrA) :
          Call("m_normalize", "done", M, NoMatrix, m_normalize(M), NoMatrix, NoMatrix)
    /\ UNCHANGED <<val, stream, pos, wrote, got, freed, scatterVars, live, recogVars, dbVars,
                   stray, shVars>>

\* m_reshape(M, newNumRows, newNumCols); B0 keeps the dimensions asked for.
CallReshape ==
    /\ pc = "idle"
    /\ \E M \in SmallOperands(AddrA), newNumRows \in ReshapeDims, newNumCols \in ReshapeDims,
          g \in Garbage :
          IF M.rows * M.cols = newNumRows * newNumCols
          THEN /\ Call("m_reshape", "done", M, Shape(newNumRows, newNumCols), M, NoMatrix,
                       m_reshape(M, newNumRows, newNumCols, AddrFresh, g))
               /\ stray' = ReshapeStray(M, newNumRows, newNumCols)
          ELSE /\ Call("m_reshape", "aborted", M, Shape(newNumRows, newNumCols), M, NoMatrix,
                       NoMatrix)
               /\ stray' = {}
    /\ UNCHANGED <<val, stream, pos, wrote, got, freed, scatterVars, live, recogVars, dbVars,
                   shVars>>

CallCovariance ==
    /\ pc = "idle"
    /\ \E M \in SmallOperands(AddrA), g \in Garbage :
          \E out \in {m_covariance(M, AddrFresh, g)} :
              /\ Call("m_covariance", "done", M, NoMatrix, M, NoMatrix, out.R)
              /\ stray' = out.stray
              /\ freed' = out.freed
    /\ UNCHANGED <<val, stream, pos, wrote, got, scatterVars, live, recogVars, dbVars, shVars>>

\* m_reorder_columns(M, V): what lies beyond the buffers is what malloc left
\* there.
CallReorderColumns ==
    /\ pc = "idle"
    /\ \E M \in SmallOperands(AddrA), g \in Garbage :
          \E V \in OrderVectors(M.cols) :
              IF M.cols = V.cols /\ V.rows = 1
              THEN \E out \in {m_reorder_columns(M, V, AddrFresh, g, Indeterminate(g, 1))} :
                       /\ Call("m_reorder_columns", "done", M, V, M, V, out.R)
                       /\ stray' = out.stray
              ELSE /\ Call("m_reorder_columns", "aborted", M, V, M, V, NoMatrix)
                   /\ stray' = {}
    /\ UNCHANGED <<val, stream, pos, wrote, got, freed, scatterVars, live, recogVars, dbVars,
                   shVars>>

libVars == <<A, B, A0, B0, R, val, stream, pos, wrote, got, freed, scatterVars, live,
             recogVars, dbVars, stray>>

\* cross-validate.sh, lines 17-32: the arguments are parsed by their number;
\* with fewer than two or more than four the script prints its usage and
\* exits with status 1.
ShParse ==
    /\ pc = "idle"
    /\ op' = "cross-validate.sh"
    /\ \E argv \in Argvs :
          IF Len(argv) \in {2, 3, 4}
          THEN /\ pc' = "script"
               /\ sh' = [at |-> "make", argv |-> argv, START |-> argv[1], END |-> argv[2],
                         ARGS |-> SubSeq(argv, 3, Len(argv)), i |-> 0]
          ELSE /\ pc' = "exited"
               /\ sh' = [NotStarted EXCEPT !.at = "usage", !.argv = argv]
    /\ UNCHANGED <<ran, libVars>>

\* Line 35: make.
ShMake ==
    /\ pc = "script" /\ sh.at = "make"
    /\ ran' = Append(ran, <<"make">>)
    /\ sh' = [sh EXCEPT !.at = "for"]
    /\ UNCHANGED <<pc, op, libVars>>

\* Line 40: i = $START.
ShFor ==
    /\ pc = "script" /\ sh.at = "for"
    /\ sh' = [sh EXCEPT !.i = sh.START, !.at = "test"]
    /\ UNCHANGED <<pc, op, ran, libVars>>

\* Line 40: i <= $END; the script ends when the test fails.
ShTest ==
    /\ pc = "script" /\ sh.at = "test"
    /\ IF LoopTest(sh.i, sh.END)
       THEN /\ sh' = [sh EXCEPT !.at = "create-sets"]
            /\ pc' = pc
       ELSE /\ sh' = [sh EXCEPT !.at = "end"]
            /\ pc' = "done"
    /\ UNCHANGED <<op, ran, libVars>>

\* Line 45: ./create-sets.sh $i, run to its end.
ShCreateSets ==
    /\ pc = "script" /\ sh.at = "create-sets"
    /\ ran' = Append(ran, CreateSets(sh.i))
    /\ sh' = [sh EXCEPT !.at = "face-rec"]
    /\ UNCHANGED <<pc, op, libVars>>

\* Line 48: ./face-rec ..., run to its end.
ShFaceRec ==
    /\ pc = "script" /\ sh.at = "face-rec"
    /\ ran' = Append(ran, FaceRec(sh.ARGS))
    /\ sh' = [sh EXCEPT !.at = "step"]
    /\ UNCHANGED <<pc, op, libVars>>

\* Line 40: i++.
ShStep ==
    /\ pc = "script" /\ sh.at = "step"
    /\ sh' = [sh EXCEPT !.i = sh.i + 1, !.at = "test"]
    /\ UNCHANGED <<pc, op, ran, libVars>>

\* m_free(R): the caller releases the matrix a matrix operation returned.
CallFree ==
    /\ pc = "done" /\ op \in MatrixOps /\ R # NoMatrix
    /\ pc' = "freed"
    /\ freed' = freed \cup {R.addr}
    /\ UNCHANGED <<op, A, B, A0, B0, R, val, stream, pos, wrote, got, scatterVars, live,
                   recogVars, dbVars, stray, shVars>>

\* The process ends and the next one starts.
Restart ==
    /\ pc # "idle"
    /\ pc' = "idle" /\ op' = "none"
    /\ A' = NoMatrix /\ B' = NoMatrix /\ A0' = NoMatrix /\ B0' = NoMatrix
    /\ R' = NoMatrix /\ val' = 0 /\ stream' = <<>> /\ pos' = 0
    /\ wrote' = <<>> /\ got' = <<>> /\ freed' = {}
    /\ entries' = <<>> /\ num_classes' = 0
    /\ S_b' = NoMatrix /\ S_w' = NoMatrix /\ u' = NoMatrix
    /\ blocks' = <<>> /\ reads' = {}
    /\ W_fld' = NoMatrix
    /\ live' = {}
    /\ Eigenfaces' = NoMatrix /\ ProjectedImages' = NoMatrix
    /\ ProjectedTestImage' = NoMatrix /\ Euc_dist' = <<>>
    /\ db' = NoDatabase /\ loaded' = NoDatabase /\ tset' = <<>>
    /\ stray' = {}
    /\ sh' = NotStarted /\ ran' = <<>>

Next ==
    \/ CallInitialize
    \/ CallZeros
    \/ CallIdentity
    \/ CallCopy
    \/ CallTranspose
    \/ CallTransposeAgain
    \/ CallSqrtm
    \/ CallDeterminant
    \/ CallCofactor
    \/ CallDotSubtract
    \/ CallDotAdd
    \/ CallDotDivision
    \/ CallInverseMatrix
    \/ CallMatrixDivision
    \/ CallFwrite
    \/ CallFread
    \/ CallFprint
    \/ CallFscan
    \/ CallScatter
    \/ CallLDA
    \/ CallRecognition
    \/ CallDbSave
    \/ CallDbLoad
    \/ CallMeanColumn
    \/ CallNormalizeColumns
    \/ CallNormalize
    \/ CallReshape
    \/ CallCovariance
    \/ CallReorderColumns
    \/ ShParse
    \/ ShMake
    \/ ShFor
    \/ ShTest
    \/ ShCreateSets
    \/ ShFaceRec
    \/ ShStep
    \/ CallFree
    \/ Restart

Spec == Init /\ [][Next]_vars

---------------------------------------------------------------------------
(* The claims. *)

Sign(n) == IF n % 2 = 0 THEN 1 ELSE -1

IsIdentity(M) ==
    /\ M.rows = M.cols
    /\ \A i \in 0..(M.rows - 1), j \in 0..(M.cols - 1) :
          elem(M, i, j) = IF i = j THEN 1 ELSE 0

HasZeroRow(M) ==
    \E i \in 0..(M.rows - 1) : \A j \in 0..(M.cols - 1) : elem(M, i, j) = 0

\* C1: m_determinant returns 1 for the identity matrix of every order from 1
\* to 6, and 0 for every square matrix of order 1 to 4 that has a row of zeros.
C1_DeterminantIdentityZeroRow ==
    (pc = "done" /\ op = "m_determinant") =>
        /\ (IsIdentity(A0) /\ A0.rows \in 1..6) => val = 1
        /\ (HasZeroRow(A0) /\ A0.rows \in 1..4) => val = 0

\* C2: for a square matrix of order 1 to 4, m_determinant returns the cofactor
\* expansion along the first row (the standard determinant) and leaves the
\* matrix unchanged.
C2_DeterminantIsExpansion ==
    (pc = "done" /\ op = "m_determinant" /\ A0.rows \in 1..4) =>
        /\ val = Determinant(A0)
        /\ A = A0

\* C3: for a square matrix M of order 2 to 4, m_cofactor returns a matrix of
\* the dimensions of M that holds at (j, i) the value (-1)^(i+j) times the
\* standard determinant of M without row i and column j.
C3_CofactorTransposed ==
    (pc = "done" /\ op = "m_cofactor" /\ A0.rows \in 2..4) =>
        /\ SameDims(R, A0)
        /\ \A i \in 0..(A0.rows - 1), j \in 0..(A0.cols - 1) :
              elem(R, j, i) = Sign(i + j) * Determinant(Minor(A0, i, j))

\* C4: m_transpose(M) is a cols-by-rows matrix T with T[i][j] = M[j][i]; the
\* transpose of the transpose has the dimensions of M and equals M element
\* for element; M is not modified.
C4_TransposeInvolution ==
    /\ (op = "m_transpose") =>
          /\ R.rows = A0.cols /\ R.cols = A0.rows
          /\ Len(R.data) = R.rows * R.cols
          /\ \A i \in 0..(R.rows - 1), j \in 0..(R.cols - 1) :
                elem(R, i, j) = elem(A0, j, i)
          /\ A = A0
    /\ (op = "m_transpose2") =>
          /\ R.rows = A0.rows /\ R.cols = A0.cols
          /\ R.data = A0.data
          /\ A = A0 /\ B = B0

\* A matrix that is not square was transposed twice, and its elements are
\* all different.
C4_Witness ==
    /\ op = "m_transpose2" /\ pc = "done"
    /\ A0.rows = 2 /\ A0.cols = 1
    /\ A0.data[1] # A0.data[2]
    /\ B0.rows = 1 /\ B0.cols = 2

\* C5: the text written by m_fprint, read back by m_fscan, gives a matrix
\* with the rows, the cols and every element of the matrix written, also for
\* elements of more than six significant digits.
C5_TextRoundTrip ==
    (pc = "done" /\ op = "m_fscan") =>
        /\ R.rows = A0.rows /\ R.cols = A0.cols
        /\ R.data = A0.data

\* The number of stream items of the first n matrices written.
RECURSIVE Offset(_)
Offset(n) ==
    IF n = 0 THEN 0 ELSE Offset(n - 1) + 2 + wrote[n].rows * wrote[n].cols

\* C6: m_fwrite emits rows, then cols, then exactly rows*cols elements in the
\* order of the buffer and nothing else; m_fread returns a matrix with the
\* same rows, cols and elements; matrices written back to back are read back
\* in the same order, each unchanged, and the stream is consumed exactly.
C6_BinaryRoundTrip ==
    (op \in {"m_fwrite", "m_fread"}) =>
        /\ Len(stream) = Offset(Len(wrote))
        /\ \A n \in 1..Len(wrote) :
              /\ stream[Offset(n - 1) + 1] = [t |-> "int", v |-> wrote[n].rows]
              /\ stream[Offset(n - 1) + 2] = [t |-> "int", v |-> wrote[n].cols]
              /\ \A k \in 1..(wrote[n].rows * wrote[n].cols) :
                    stream[Offset(n - 1) + 2 + k] = [t |-> "double", v |-> wrote[n].data[k]]
        /\ Len(got) <= Len(wrote)
        /\ \A n \in 1..Len(got) :
              /\ got[n].rows = wrote[n].rows /\ got[n].cols = wrote[n].cols
              /\ got[n].data = wrote[n].data
        /\ pos = Offset(Len(got))
        /\ (Len(got) = Len(wrote)) => pos = Len(stream)

\* Two matrices of different dimensions were written back to back and both
\* were read back.
C6_Witness ==
    /\ op = "m_fread" /\ Len(wrote) = 2 /\ Len(got) = 2
    /\ wrote[1].rows = 1 /\ wrote[1].cols = 2
    /\ wrote[2].rows = 2 /\ wrote[2].cols = 2
    /\ pos = 10

\* C7: inverting a singular matrix (m_inverseMatrix, m_matrix_division) never
\* terminates the process: the caller gets an error it can recover from.
C7_SingularIsRecoverable ==
    /\ (op = "m_inverseMatrix" /\ Determinant(A0) = 0) => pc # "exited"
    /\ (op = "m_matrix_division" /\ Determinant(B0) = 0) => pc # "exited"

DotOps == {"m_dot_subtract", "m_dot_add", "m_dot_division"}

\* C8: m_dot_add, m_dot_subtract and m_dot_division fail, with no result
\* matrix, when the dimensions of the operands differ; when they agree the
\* result has the operands' dimensions, holds A[i][j] op B[i][j] at every
\* position, and neither operand is modified.
C8_ElementwiseBinary ==
    (op \in DotOps) =>
        IF ~(A0.rows = B0.rows /\ A0.cols = B0.cols)
        THEN pc = "aborted" /\ R = NoMatrix
        ELSE /\ pc \in {"done", "freed"}
             /\ R.rows = A0.rows /\ R.cols = A0.cols
             /\ Len(R.data) = R.rows * R.cols
             /\ \A i \in 0..(R.rows - 1), j \in 0..(R.cols - 1) :
                   CASE op = "m_dot_subtract" ->
                            elem(R, i, j) = elem(A0, i, j) - elem(B0, i, j)
                     [] op = "m_dot_add" ->
                            elem(R, i, j) = elem(A0, i, j) + elem(B0, i, j)
                     [] OTHER ->
                            elem(R, i, j) * elem(B0, i, j) = elem(A0, i, j)
             /\ A = A0 /\ B = B0

\* Two 2-by-1 matrices were added, element by element.
C8_Witness ==
    /\ op = "m_dot_add" /\ pc = "done"
    /\ A0.rows = 2 /\ A0.cols = 1 /\ B0.rows = 2 /\ B0.cols = 1
    /\ R.data = <<A0.data[1] + B0.data[1], A0.data[2] + B0.data[2]>>
    /\ B0.data[1] # 0 /\ B0.data[2] # 0

\* C9: m_initialize and m_zeros return a matrix of rows*cols elements that are
\* all 0, and m_identity an n-by-n matrix with 1 on the diagonal and 0
\* elsewhere: no element of a new matrix is indeterminate.
C9_ConstructorsDefined ==
    /\ (op \in {"m_initialize", "m_zeros"}) =>
          /\ Len(R.data) = R.rows * R.cols
          /\ \A k \in 1..Len(R.data) : R.data[k] = 0
    /\ (op = "m_identity") => IsIdentity(R)

\* C10: a matrix operation returns storage distinct from its operands, so
\* that freeing the result leaves each operand valid and unchanged.
C10_ResultNotAliased ==
    (op \in MatrixOps /\ pc \in {"done", "freed"}) =>
        /\ R.addr # A.addr /\ R.addr # B.addr
        /\ (pc = "freed") => (A.addr \notin freed /\ A = A0)

\* The sum of f over the finite set S.
RECURSIVE Sum(_, _)
Sum(f, S) ==
    IF S = {} THEN 0
    ELSE LET x == CHOOSE y \in S : TRUE IN f[x] + Sum(f, S \ {x})

\* Entries of the same class are contiguous.
Grouped(ents) ==
    \A x, y, z \in 1..Len(ents) :
        (x < y /\ y < z /\ ents[x].class = ents[z].class) => ents[y].class = ents[x].class

ClassesOf(ents) == { ents[k].class : k \in 1..Len(ents) }

\* The columns (from 0) of the images of class l.
ColsOf(ents, l) == { k - 1 : k \in { x \in 1..Len(ents) : ents[x].class = l } }

\* m_scatter has returned for entries that are grouped by class, with c the
\* number of classes.
ScatterDone ==
    /\ op = "m_scatter" /\ pc = "done"
    /\ Grouped(entries)
    /\ num_classes = Cardinality(ClassesOf(entries))

\* Row r of the mean column of class l (the sum is a multiple of the size).
ClassMean(l, r) ==
    Sum([k \in ColsOf(entries, l) |-> elem(A0, r, k)], ColsOf(entries, l))
        \div Cardinality(ColsOf(entries, l))

\* Row r of the sum of the class means.
MeanSum(r) == Sum([l \in ClassesOf(entries) |-> ClassMean(l, r)], ClassesOf(entries))

\* The trace of a square matrix.
Trace(M) == Sum([i \in 0..(M.rows - 1) |-> elem(M, i, i)], 0..(M.rows - 1))

\* C11: the grand mean u of m_scatter is the equal-weight average of the c
\* class means, u[j] = (U_1[j] + ... + U_c[j]) / c for every row j, whatever
\* the class sizes and whatever the memory held before.
C11_GrandMeanOfClassMeans ==
    ScatterDone =>
        /\ u.rows = A0.rows /\ u.cols = 1
        /\ \A r \in 0..(A0.rows - 1) : elem(u, r, 0) * num_classes = MeanSum(r)

\* C12: after m_scatter on a zero S_b, S_b is the sum over the classes of
\* n_i (mean_i - grand_mean)(mean_i - grand_mean)^T with grand_mean the
\* equal-weight mean of the class means (both sides times c * c), and S_b is
\* symmetric.
C12_BetweenScatter ==
    ScatterDone =>
        /\ S_b.rows = A0.rows /\ S_b.cols = A0.rows
        /\ \A r, t \in 0..(A0.rows - 1) :
              /\ num_classes * num_classes * elem(S_b, r, t) =
                    Sum([l \in ClassesOf(entries) |->
                            Cardinality(ColsOf(entries, l))
                                * (num_classes * ClassMean(l, r) - MeanSum(r))
                                * (num_classes * ClassMean(l, t) - MeanSum(t))],
                        ClassesOf(entries))
              /\ elem(S_b, r, t) = elem(S_b, t, r)

\* The images of each class are identical.
IdenticalInClass ==
    \A x, y \in 1..Len(entries) :
        entries[x].class = entries[y].class =>
            \A r \in 0..(A0.rows - 1) : elem(A0, r, x - 1) = elem(A0, r, y - 1)

\* C13: after m_scatter on a zero S_w, S_w is the sum over the classes of the
\* class block minus its mean column, times its transpose; S_w is the zero
\* matrix when the images of each class are identical.
C13_WithinScatter ==
    ScatterDone =>
        /\ S_w.rows = A0.rows /\ S_w.cols = A0.rows
        /\ \A r, t \in 0..(A0.rows - 1) :
              elem(S_w, r, t) =
                  Sum([l \in ClassesOf(entries) |->
                          Sum([k \in ColsOf(entries, l) |->
                                  (elem(A0, r, k) - ClassMean(l, r))
                                      * (elem(A0, t, k) - ClassMean(l, t))],
                              ColsOf(entries, l))],
                      ClassesOf(entries))
        /\ IdenticalInClass => \A k \in 1..Len(S_w.data) : S_w.data[k] = 0

\* m_scatter has returned for two classes of four identical images of two
\* pixels each.
C13_Witness ==
    /\ ScatterDone
    /\ entries = TwoByFour /\ A0.rows = 2
    /\ S_w.data = <<0, 0, 0, 0>>
    /\ S_b.data[1] > 0

\* C14: for every X and every partition of its n columns into contiguous
\* classes, trace(S_b) + trace(S_w) = trace(S_t), with S_t the sum over the
\* columns x of (x - m)(x - m)^T and m the mean of all columns (both sides
\* times n: n * trace(S_t) = n * sum |x|^2 - |sum x|^2).
C14_TraceDecomposition ==
    ScatterDone =>
        A0.cols * (Trace(S_b) + Trace(S_w)) =
            Sum([r \in 0..(A0.rows - 1) |->
                    A0.cols * Sum([k \in 0..(A0.cols - 1) |-> elem(A0, r, k) * elem(A0, r, k)],
                                  0..(A0.cols - 1))
                    - Sum([k \in 0..(A0.cols - 1) |-> elem(A0, r, k)], 0..(A0.cols - 1))
                      * Sum([k \in 0..(A0.cols - 1) |-> elem(A0, r, k)], 0..(A0.cols - 1))],
                0..(A0.rows - 1))

\* C15: for entries grouped by class and c the number of classes, the
\* partition loop of m_scatter yields c non-empty consecutive column blocks,
\* one per class in entry order, that together are the columns 0 .. cols-1,
\* and it reads entries[] only at indices below cols.
C15_PartitionBlocks ==
    ScatterDone =>
        /\ Len(blocks) = num_classes
        /\ \A i \in 1..Len(blocks) :
              /\ blocks[i][1] < blocks[i][2]
              /\ blocks[i][1] = IF i = 1 THEN 0 ELSE blocks[i - 1][2]
              /\ \A k \in blocks[i][1]..(blocks[i][2] - 1) :
                    ColsOf(entries, entries[k + 1].class) = blocks[i][1]..(blocks[i][2] - 1)
        /\ blocks[Len(blocks)][2] = A0.cols
        /\ reads \subseteq 0..(A0.cols - 1)

\* m_scatter has split four images of three classes of sizes 2, 1 and 1.
C15_Witness ==
    /\ ScatterDone
    /\ num_classes = 3
    /\ blocks = << <<0, 2>>, <<2, 3>>, <<3, 4>> >>
    /\ reads = {0, 1, 2, 3}

\* C16: for an n-by-m W_pca_tr and an n-by-n P_pca, LDA returns the n-by-m
\* matrix (W_fld)^T * W_pca_tr, where the columns of W_fld are eigenvectors of
\* S_w^-1 * S_b (S_b v = ev * S_w v); the products inside LDA are of matrices
\* whose inner dimensions agree.
C16_LdaProjection ==
    (op = "LDA" /\ B0.rows = B0.cols /\ A0.rows = B0.rows) =>
        /\ pc = "done"
        /\ R.rows = B0.rows /\ R.cols = A0.cols
        /\ S_w.cols = S_b.rows /\ W_fld.rows = A0.rows
        /\ \A j \in 0..(W_fld.cols - 1) : \E ev \in -2..2 :
              \A i \in 0..(S_b.rows - 1) :
                  Sum([k \in 0..(S_b.cols - 1) |-> elem(S_b, i, k) * elem(W_fld, k, j)],
                      0..(S_b.cols - 1))
                  = ev * Sum([k \in 0..(S_w.cols - 1) |-> elem(S_w, i, k) * elem(W_fld, k, j)],
                             0..(S_w.cols - 1))
        /\ \A i \in 0..(R.rows - 1), j \in 0..(R.cols - 1) :
              elem(R, i, j) = Sum([k \in 0..(A0.rows - 1) |-> elem(W_fld, k, i) * elem(A0, k, j)],
                                  0..(A0.rows - 1))

\* The squared Euclidean distance of the projected test image to the
\* projected training column i (from 1).
Distance(i) ==
    Sum([r \in 0..(ProjectedImages.rows - 1) |->
            (elem(ProjectedTestImage, r, 0) - elem(ProjectedImages, r, i - 1))
                * (elem(ProjectedTestImage, r, 0) - elem(ProjectedImages, r, i - 1))],
        0..(ProjectedImages.rows - 1))

\* C17: nearest-neighbour matching returns the index of a training column at
\* the smallest squared Euclidean distance from the projected test vector,
\* the lowest such index when several columns are at that distance.
C17_NearestNeighbour ==
    (op = "Recognition") =>
        /\ val \in 1..ProjectedImages.cols
        /\ \A i \in 1..ProjectedImages.cols : Distance(val) <= Distance(i)
        /\ \A i \in 1..(val - 1) : Distance(i) > Distance(val)

\* Two training columns after the first are at the smallest distance, which a
\* column before them is not, and the lower of their indices was returned.
C17_Witness ==
    /\ op = "Recognition"
    /\ val >= 2
    /\ \E i \in (val + 1)..ProjectedImages.cols : Distance(i) = Distance(val)
    /\ Distance(1) > Distance(val)

\* The test image is the training image k (from 1).
IsTrainingImage(k) == k \in 1..A0.cols /\ B0.data = Column(A0, k).data

\* C18 as stated: projecting the training image k and searching its nearest
\* neighbour among the projected training columns returns k, also when an
\* identical image has a lower index.
C18_OwnIndex ==
    (op = "Recognition") => \A k \in 1..A0.cols : IsTrainingImage(k) => val = k

\* C18 as amended: the search returns the lowest index whose projected
\* training column equals that of image k: it is at distance 0, it is k when
\* no column of lower index has the same projection, and lower otherwise.
C18_LowestEqualProjection ==
    (op = "Recognition") =>
        \A k \in 1..A0.cols : IsTrainingImage(k) =>
            /\ Distance(val) = 0
            /\ Column(ProjectedImages, val).data = Column(ProjectedImages, k).data
            /\ val <= k
            /\ \A i \in 1..(val - 1) :
                  Column(ProjectedImages, i).data # Column(ProjectedImages, k).data

\* The third training image was projected, the second is identical to it and
\* the first is not: the search returned 2.
C18_Witness ==
    /\ op = "Recognition"
    /\ IsTrainingImage(3) /\ IsTrainingImage(2) /\ ~IsTrainingImage(1)
    /\ val = 2
    /\ Distance(1) > 0

\* Two matrices have the same dimensions and the same elements.
SameMatrix(M, N) == M.rows = N.rows /\ M.cols = N.cols /\ M.data = N.data

\* The items of the data artifact that hold the matrix M.
ItemsOf(M) ==
    <<[t |-> "int", v |-> M.rows], [t |-> "int", v |-> M.cols]>>
        \o [k \in 1..(M.rows * M.cols) |-> [t |-> "double", v |-> M.data[k]]]

C20_NoLeaks ==
    (pc = "done") =>
        /\ (op = "m_scatter") => live = {}
        /\ (op = "LDA") => live = {<<"W_lda_tr", 0>>}
        /\ (op = "m_inverseMatrix") => live = {}

\* The sum of row j of M over its columns.
RowSum(M, j) == Sum([i \in 0..(M.cols - 1) |-> elem(M, j, i)], 0..(M.cols - 1))

\* C21: for a matrix M with at least one column, m_mean_column(M) returns a
\* rows-by-1 vector a with a[j] the sum of row j of M divided by cols, and
\* leaves M unchanged; m_normalize_columns(M, a) then replaces every M[j][i]
\* by M[j][i] - a[j], leaves a and the dimensions of M unchanged, and the mean
\* column of the resulting M is the zero vector.
C21_MeanAndCentering ==
    /\ (pc = "done" /\ op = "m_mean_column" /\ A0.cols >= 1) =>
          /\ R.rows = A0.rows /\ R.cols = 1
          /\ \A j \in 0..(A0.rows - 1) : elem(R, j, 0) * A0.cols = RowSum(A0, j)
          /\ A = A0
    /\ (pc = "done" /\ op = "m_normalize_columns" /\ A0.cols >= 1) =>
          /\ SameDims(A, A0)
          /\ \A j \in 0..(A0.rows - 1), i \in 0..(A0.cols - 1) :
                elem(A, j, i) = elem(A0, j, i) - elem(B0, j, 0)
          /\ B = B0
          /\ \A j \in 0..(A.rows - 1) : RowSum(A, j) = 0

\* The mean column of a matrix of two columns that differ was subtracted from
\* it.
C21_Witness ==
    /\ pc = "done" /\ op = "m_normalize_columns"
    /\ A0.cols = 2 /\ A0.rows = 2
    /\ \E j \in 0..(A0.rows - 1) : elem(A0, j, 0) # elem(A0, j, 1)
    /\ \E j \in 0..(B.rows - 1) : elem(B, j, 0) # 0

\* The commands of the folds for the indices b, b+1, ..., e with the flags
\* given: for each index the two sets are created, then face-rec is run.
RECURSIVE Folds(_, _, _)
Folds(b, e, flags) ==
    IF b > e THEN <<>>
    ELSE << <<"./create-sets.sh", b>>,
            <<"./face-rec", "--train", "train_images", "--rec", "test_images">> \o flags >>
         \o Folds(b + 1, e, flags)

IsPrefix(s, t) == Len(s) <= Len(t) /\ SubSeq(t, 1, Len(s)) = s

\* C22: with a begin index S, an end index E and up to two flags,
\* cross-validate.sh runs exactly one fold for each index S, S+1, ..., E in
\* ascending order (none when S > E); in each fold the sets for the index are
\* created before face-rec is run, face-rec is run with --train train_images
\* --rec test_images and the flags, and a fold does not start before the
\* fold of the index before has finished: at every moment the commands
\* completed are a prefix of the folds in order, and all of them at the end.
C22_FoldsInOrder ==
    (op = "cross-validate.sh" /\ Len(sh.argv) \in 2..4) =>
        LET folds == Folds(sh.argv[1], sh.argv[2], SubSeq(sh.argv, 3, Len(sh.argv)))
        IN  /\ pc \in {"script", "done"}
            /\ IsPrefix(ran, << <<"make">> >> \o folds)
            /\ (pc = "done") => ran = << <<"make">> >> \o folds

\* The script ended after the folds of a range of several indices, run with
\* flags.
C22_Witness ==
    /\ op = "cross-validate.sh" /\ pc = "done"
    /\ sh.START < sh.END /\ sh.ARGS # <<>>
    /\ Len(ran) = 1 + 2 * (sh.END - sh.START + 1)

\* V holds a permutation of the column indices 0 .. n-1.
IsPermutation(V, n) ==
    /\ Len(V.data) = n
    /\ { V.data[k] : k \in 1..n } = 0..(n - 1)

\* C23: for a matrix M and a 1-row vector V of M->cols entries that holds a
\* permutation of the column indices of M, m_reorder_columns(M, V) returns a
\* matrix R of the dimensions of M in which column j of R is column V[0][j] of
\* M; it reads V and M only at indices that are in range; and it fails its
\* precondition check when V does not have exactly one row and M->cols columns.
C23_ReorderColumns ==
    (op = "m_reorder_columns") =>
        IF B0.rows = 1 /\ B0.cols = A0.cols
        THEN /\ pc = "done"
             /\ IsPermutation(B0, A0.cols) =>
                   /\ SameDims(R, A0)
                   /\ \A j \in 0..(A0.cols - 1), i \in 0..(A0.rows - 1) :
                         elem(R, i, j) = elem(A0, i, elem(B0, 0, j))
                   /\ stray = {}
        ELSE pc = "aborted"

\* The elements of M read row by row.
RowMajor(M) == [x \in 1..(M.rows * M.cols) |-> elem(M, (x - 1) \div M.cols, (x - 1) % M.cols)]

\* C24: m_reshape(M, r, c) fails its precondition when r*c differs from
\* M->rows * M->cols; otherwise it returns a new r-by-c matrix R whose
\* elements read in row-major order are those of M read in row-major order
\* (R[i / c][i % c] = M[i / M->cols][i % M->cols] for every i below r*c),
\* every index used is in range, M is unchanged, and reshaping to the
\* dimensions of M returns a matrix equal to M.
C24_Reshape ==
    (op = "m_reshape") =>
        IF B0.rows * B0.cols # A0.rows * A0.cols
        THEN pc = "aborted"
        ELSE /\ pc \in {"done", "freed"}
             /\ R.rows = B0.rows /\ R.cols = B0.cols
             /\ R.addr # A0.addr
             /\ Len(R.data) = B0.rows * B0.cols
             /\ \A i \in 0..(B0.rows * B0.cols - 1) :
                   elem(R, i \div B0.cols, i % B0.cols) = elem(A0, i \div A0.cols, i % A0.cols)
             /\ RowMajor(R) = RowMajor(A0)
             /\ stray = {}
             /\ A = A0
             /\ SameDims(B0, A0) => R.data = A0.data

\* A 2-by-2 matrix of four different elements was reshaped to one row of four.
C24_Witness ==
    /\ op = "m_reshape" /\ pc = "done"
    /\ A0.rows = 2 /\ A0.cols = 2 /\ R.rows = 1 /\ R.cols = 4
    /\ Cardinality({ A0.data[k] : k \in 1..4 }) = 4

\* The smallest and the largest element of M.
Smallest(M) == CHOOSE x \in { M.data[k] : k \in 1..Len(M.data) } :
                   \A k \in 1..Len(M.data) : x <= M.data[k]
Largest(M) == CHOOSE x \in { M.data[k] : k \in 1..Len(M.data) } :
                  \A k \in 1..Len(M.data) : x >= M.data[k]

\* C25: after m_normalize(M) on a matrix that is not empty the dimensions of
\* M are unchanged and every element is a defined value in [0,1], equal to
\* (old value - min) / (max - min) for the smallest and the largest old
\* element; this for every input, a matrix of equal elements included.
C25_NormalizeUnit ==
    (pc = "done" /\ op = "m_normalize") =>
        /\ SameDims(A, A0)
        /\ \A k \in 1..Len(A0.data) :
              /\ A.data[k].den # 0
              /\ 0 <= A.data[k].num /\ A.data[k].num <= A.data[k].den
              /\ A.data[k].num * (Largest(A0) - Smallest(A0))
                     = (A0.data[k] - Smallest(A0)) * A.data[k].den

\* The sum of column j of M over its rows.
ColSum(M, j) == Sum([i \in 0..(M.rows - 1) |-> elem(M, i, j)], 0..(M.rows - 1))

\* rows * rows times the sum over the rows i of
\* (M[i][j] - mean_j) * (M[i][k] - mean_k), mean_j being ColSum(M, j) / rows.
CenteredProducts(M, j, k) ==
    Sum([i \in 0..(M.rows - 1) |->
            (M.rows * elem(M, i, j) - ColSum(M, j)) * (M.rows * elem(M, i, k) - ColSum(M, k))],
        0..(M.rows - 1))

\* Two quotients are the same number.
SameQuot(p, q) == p.den # 0 /\ q.den # 0 /\ p.num * q.den = q.num * p.den

\* C26: m_covariance(M) returns the covariance matrix of the columns of M, a
\* cols-by-cols matrix R with R[j][k] the sum over the rows i of
\* (M[i][j] - mean_j) * (M[i][k] - mean_k) divided by n - 1 (n the number of
\* rows); the result is a function of the elements of M only, it is
\* symmetric, every index written is inside the allocated result, and M is
\* unchanged.
C26_Covariance ==
    (pc = "done" /\ op = "m_covariance") =>
        /\ R.rows = A0.cols /\ R.cols = A0.cols
        /\ Len(R.data) = A0.cols * A0.cols
        /\ (A0.rows >= 2) =>
              \A j \in 0..(A0.cols - 1), k \in 0..(A0.cols - 1) :
                  SameQuot(elem(R, j, k),
                           Quot(CenteredProducts(A0, j, k), A0.rows * A0.rows * (A0.rows - 1)))
        /\ \A j \in 0..(A0.cols - 1), k \in 0..(A0.cols - 1) :
              SameQuot(elem(R, j, k), elem(R, k, j))
        /\ \A g \in Garbage : R.data = m_covariance(A0, AddrFresh, g).R.data
        /\ \A w \in stray : Idx(R, w[2], w[3]) \in 1..Len(R.data)
        /\ A = A0

====
